---- MODULE Spec2Model ----
(***************************************************************************)
(* A model of the Prometheus receiver's scrape transaction                 *)
(* (receiver/prometheusreceiver/internal/transaction.go): one transaction  *)
(* object, its Append / Commit / Rollback handlers, the metric builder it  *)
(* owns, the JobsMap adjuster and the sink it delivers to.                 *)
(***************************************************************************)
EXTENDS Integers, Sequences, FiniteSets, TLC

VARIABLES tr, ctxDone, jobsMap, cnt, last, call, fn, procs, sc, ecs

vars == <<tr, ctxDone, jobsMap, cnt, last, call, fn, procs, sc, ecs>>

(***************************************************************************)
(* Bounds of the model.                                                    *)
(***************************************************************************)
MaxAppends == 2
MaxCommits == 2
MaxRollbacks == 1
MaxMetrics == 2
MaxLoops == 3
MaxTransactions == 4

(***************************************************************************)
(* Errors (transaction.go:52-55 and the collaborators' errors).            *)
(***************************************************************************)
Nil == "nil"
errMetricNameNotFound == "metricName not found from labels"
errTransactionAborted == "transaction aborted"
errNoJobInstance == "job or instance cannot be found from labels"
errNoStartTimeMetrics == "process_start_time_seconds metric is missing"
errNoDataToBuild == "there's no data to build"
errMetadata == "unable to find a target group with job"
ErrNotFound == "not found"
SinkErrors == {"sink: queue full", "sink: permanent"}

(***************************************************************************)
(* Values: float64 samples.  The stale marker is one reserved NaN bit      *)
(* pattern; any other NaN is an ordinary NaN.                              *)
(***************************************************************************)
Num(n) == [k |-> "num", n |-> n]
StaleNaN == [k |-> "stale", n |-> 0]
OrdinaryNaN == [k |-> "nan", n |-> 0]
IsStaleNaN(v) == v.k = "stale"

(***************************************************************************)
(* Label sets: ordered sequences of (name, value) pairs.                   *)
(***************************************************************************)
JobLabel == "job"
InstanceLabel == "instance"
MetricNameLabel == "__name__"
startTimeMetricName == "process_start_time_seconds"

L(n, v) == [name |-> n, value |-> v]

\* labels.Labels.Get: the value of the first label of that name, "" if none.
Get(ls, n) ==
    IF \E i \in 1..Len(ls) : ls[i].name = n
    THEN ls[CHOOSE i \in 1..Len(ls) :
                /\ ls[i].name = n
                /\ \A j \in 1..(i - 1) : ls[j].name # n].value
    ELSE ""

\* A label set from its job, instance and metric name, "" meaning absent.
MkLabels(j, i, m) ==
    (IF m = "" THEN <<>> ELSE <<L(MetricNameLabel, m)>>)
    \o (IF i = "" THEN <<>> ELSE <<L(InstanceLabel, i)>>)
    \o (IF j = "" THEN <<>> ELSE <<L(JobLabel, j)>>)

(***************************************************************************)
(* The inputs of Append: label sets, timestamps and values.                *)
(***************************************************************************)
SampleInputs ==
    { [ls |-> MkLabels("j1", "h1:80", "reqs_total"), t |-> 1, v |-> Num(1)],
      [ls |-> MkLabels("j1", "h1:80", "reqs_total"), t |-> 2, v |-> StaleNaN],
      [ls |-> MkLabels("j1", "h1:80", startTimeMetricName), t |-> 1, v |-> Num(5)],
      [ls |-> MkLabels("j1", "h1:80", startTimeMetricName), t |-> 2, v |-> Num(0)],
      [ls |-> MkLabels("j1", "h1:80", ""), t |-> 1, v |-> Num(1)],
      [ls |-> MkLabels("", "h1:80", "reqs_total"), t |-> 1, v |-> Num(1)],
      [ls |-> MkLabels("j2", "h2", "reqs_total"), t |-> 1, v |-> Num(1)] }

ExternalLabelSets == { <<>> }

(***************************************************************************)
(* MetadataService: Get(job, instance) yields the target's metadata cache  *)
(* or an error.                                                            *)
(***************************************************************************)
MsResults == {Nil, errMetadata}
SchemeOf(job, instance) == "http"

\* The declared type of a metric family.
MetricType(name) ==
    CASE name = "reqs_total" -> "CUMULATIVE_DOUBLE"
      [] name = "temp" -> "GAUGE_DOUBLE"
      [] name = startTimeMetricName -> "GAUGE_DOUBLE"
      [] name = "lat_bucket" -> "CUMULATIVE_DISTRIBUTION"
      [] OTHER -> "UNSPECIFIED"

\* A bucket sample of a histogram family whose count and sum never arrive:
\* the builder accumulates it, but it completes no data point.
IsLoneBucket(name) == name = "lat_bucket"

(***************************************************************************)
(* metricBuilder: AddDataPoint and Build.                                  *)
(***************************************************************************)
NoBuilder ==
    [created |-> FALSE, useStartTimeMetric |-> FALSE, startTime |-> Num(0),
     intervalStartTimeMs |-> -1, points |-> <<>>, incomplete |-> FALSE]

newMetricBuilder(useStartTime, startTimeMs) ==
    [created |-> TRUE, useStartTimeMetric |-> useStartTime, startTime |-> Num(0),
     intervalStartTimeMs |-> startTimeMs, points |-> <<>>, incomplete |-> FALSE]

\* One accumulated data point; seq is the ordinal of the Append that made it.
\* v is the value of a gauge or sum point and the sum of a histogram or
\* summary point, which also has a count and buckets or quantiles.
NoTimestamp == [set |-> FALSE, secs |-> 0, nanos |-> 0]

Point(ls, t, v, seq) ==
    [name |-> Get(ls, MetricNameLabel), type |-> MetricType(Get(ls, MetricNameLabel)),
     t |-> t, v |-> v, startTs |-> NoTimestamp, stale |-> FALSE, seq |-> seq,
     count |-> 0, buckets |-> <<>>, bounds |-> <<>>, quantiles |-> <<>>]

AddDataPoint(b, ls, t, v, seq) ==
    LET metricName == Get(ls, MetricNameLabel) IN
    IF metricName = ""
    THEN [err |-> errMetricNameNotFound, b |-> b]
    ELSE IF IsLoneBucket(metricName)
    THEN [err |-> Nil, b |-> [b EXCEPT !.incomplete = TRUE]]
    ELSE LET b1 == IF b.useStartTimeMetric /\ metricName = startTimeMetricName
                   THEN [b EXCEPT !.startTime = v]
                   ELSE b
         IN [err |-> Nil,
             b |-> [b1 EXCEPT !.points = Append(b1.points, Point(ls, t, v, seq))]]

\* Build fails only when nothing was accumulated; what was accumulated is
\* returned even if partial: a family left incomplete yields no data point.
Build(b) ==
    IF Len(b.points) = 0 /\ ~b.incomplete
    THEN [err |-> errNoDataToBuild, metrics |-> <<>>]
    ELSE [err |-> Nil, metrics |-> b.points]

(***************************************************************************)
(* The transaction.                                                        *)
(***************************************************************************)
NoResource == [job |-> "", instance |-> "", port |-> "", scheme |-> ""]
NoNode == [name |-> ""]

\* newTransaction; hasJobsMap stands for tr.jobsMap != nil: the receiver
\* creates a JobsMap exactly when the start-time metric is not used.
newTransaction(useStartTime, ext) ==
    [isNew |-> TRUE, job |-> "", instance |-> "",
     useStartTimeMetric |-> useStartTime, hasJobsMap |-> ~useStartTime,
     node |-> NoNode, resource |-> NoResource, metricBuilder |-> NoBuilder,
     externalLabels |-> ext, startTimeMs |-> -1]

\* net.SplitHostPort on the instance values of the model.
SplitHostPort(instance) ==
    CASE instance = "h1:80" -> [host |-> "h1", port |-> "80", err |-> FALSE]
      [] OTHER -> [host |-> "", port |-> "", err |-> TRUE]

\* The node carries the job as its service name (its host identifier, set
\* only for a discernible host, is left out); the resource carries the
\* identity labels.
createNodeAndResource(job, instance, scheme) ==
    LET hp == SplitHostPort(instance)
    IN [node |-> [name |-> job],
        resource |-> [job |-> job, instance |-> instance,
                      port |-> hp.port, scheme |-> scheme]]

Ev(op, n, err) == [op |-> op, n |-> n, err |-> err]

\* Mutant of initTransaction: the test of job and instance is left out.
initTransaction_noLabelTest(t, ls, msRes) ==
    LET job == Get(ls, JobLabel)
        instance == Get(ls, InstanceLabel)
    IN IF FALSE
       THEN [err |-> errNoJobInstance, tr |-> t, events |-> <<>>]
       ELSE IF msRes # Nil
       THEN [err |-> msRes, tr |-> t, events |-> <<Ev("ms.Get", 0, msRes)>>]
       ELSE LET nr == createNodeAndResource(job, instance, SchemeOf(job, instance))
                t1 == IF t.hasJobsMap
                      THEN [t EXCEPT !.job = job, !.instance = instance]
                      ELSE t
            IN [err |-> Nil,
                tr |-> [t1 EXCEPT !.node = nr.node, !.resource = nr.resource,
                                  !.metricBuilder =
                                      newMetricBuilder(t.useStartTimeMetric, t.startTimeMs),
                                  !.isNew = FALSE],
                events |-> <<Ev("ms.Get", 0, Nil), Ev("newMetricBuilder", 0, Nil)>>]

\* Mutant of initTransaction: a failed lookup is tried a second time.
initTransaction_retry(t, ls, msRes) ==
    LET job == Get(ls, JobLabel)
        instance == Get(ls, InstanceLabel)
    IN IF job = "" \/ instance = ""
       THEN [err |-> errNoJobInstance, tr |-> t, events |-> <<>>]
       ELSE IF msRes # Nil
       THEN [err |-> msRes, tr |-> t, events |-> <<Ev("ms.Get", 0, msRes), Ev("ms.Get", 0, msRes)>>]
       ELSE LET nr == createNodeAndResource(job, instance, SchemeOf(job, instance))
                t1 == IF t.hasJobsMap
                      THEN [t EXCEPT !.job = job, !.instance = instance]
                      ELSE t
            IN [err |-> Nil,
                tr |-> [t1 EXCEPT !.node = nr.node, !.resource = nr.resource,
                                  !.metricBuilder =
                                      newMetricBuilder(t.useStartTimeMetric, t.startTimeMs),
                                  !.isNew = FALSE],
                events |-> <<Ev("ms.Get", 0, Nil), Ev("newMetricBuilder", 0, Nil)>>]

\* Mutant of initTransaction: the transaction is marked initialized before
\* the tests, so a failed initialization is not tried again.
initTransaction_markFirst(t, ls, msRes) ==
    LET job == Get(ls, JobLabel)
        instance == Get(ls, InstanceLabel)
        t0 == [t EXCEPT !.isNew = FALSE]
    IN IF job = "" \/ instance = ""
       THEN [err |-> errNoJobInstance, tr |-> t0, events |-> <<>>]
       ELSE IF msRes # Nil
       THEN [err |-> msRes, tr |-> t0, events |-> <<Ev("ms.Get", 0, msRes)>>]
       ELSE LET nr == createNodeAndResource(job, instance, SchemeOf(job, instance))
                t1 == IF t.hasJobsMap
                      THEN [t0 EXCEPT !.job = job, !.instance = instance]
                      ELSE t0
            IN [err |-> Nil,
                tr |-> [t1 EXCEPT !.node = nr.node, !.resource = nr.resource,
                                  !.metricBuilder =
                                      newMetricBuilder(t.useStartTimeMetric, t.startTimeMs)],
                events |-> <<Ev("ms.Get", 0, Nil), Ev("newMetricBuilder", 0, Nil)>>]

\* initTransaction(ls) with the outcome of the MetadataService lookup.
initTransaction(t, ls, msRes) ==
    LET job == Get(ls, JobLabel)
        instance == Get(ls, InstanceLabel)
    IN IF job = "" \/ instance = ""
       THEN [err |-> errNoJobInstance, tr |-> t, events |-> <<>>]
       ELSE IF msRes # Nil
       THEN [err |-> msRes, tr |-> t, events |-> <<Ev("ms.Get", 0, msRes)>>]
       ELSE LET nr == createNodeAndResource(job, instance, SchemeOf(job, instance))
                t1 == IF t.hasJobsMap
                      THEN [t EXCEPT !.job = job, !.instance = instance]
                      ELSE t
            IN [err |-> Nil,
                tr |-> [t1 EXCEPT !.node = nr.node, !.resource = nr.resource,
                                  !.metricBuilder =
                                      newMetricBuilder(t.useStartTimeMetric, t.startTimeMs),
                                  !.isNew = FALSE],
                events |-> <<Ev("ms.Get", 0, Nil), Ev("newMetricBuilder", 0, Nil)>>]

\* Mutant of NeedsInit: every Append initializes.
NeedsInit_always(t) == TRUE

\* Append initializes the transaction while it is new.
NeedsInit(t) == t.isNew

\* Mutant of TrackStartTime: only the initial -1 counts as unset.
TrackStartTime_unset(t, ts) ==
    IF t.startTimeMs = -1 THEN [t EXCEPT !.startTimeMs = ts] ELSE t

\* The first statement of Append: the start-time tracking.
TrackStartTime(t, ts) ==
    IF t.startTimeMs < 0 THEN [t EXCEPT !.startTimeMs = ts] ELSE t

\* Mutant of WithExternalLabels: the external labels are put first.
WithExternalLabels_first(t, ls0) ==
    IF Len(t.externalLabels) > 0 THEN t.externalLabels \o ls0 ELSE ls0

\* if len(tr.externalLabels) > 0 { ls = append(ls, tr.externalLabels...) }
WithExternalLabels(t, ls0) ==
    IF Len(t.externalLabels) > 0 THEN ls0 \o t.externalLabels ELSE ls0

\* Mutant of Aborted: the context is not looked at.
Aborted_never(done) == FALSE

\* select { case <-ctx.Done(): return 0, errTransactionAborted; default: }
Aborted(done) == done

\* Append(ref, ls, t, v) on transaction t; done: the context is cancelled.
\* The AddDataPoint event carries the number of labels handed to the builder.
AppendRun(t, done, ls0, ts, v, msRes, seq) ==
    LET t1 == TrackStartTime(t, ts) IN
    IF Aborted(done)
    THEN [ref |-> 0, err |-> errTransactionAborted, tr |-> t1, events |-> <<>>]
    ELSE LET ls == WithExternalLabels(t1, ls0)
             init == IF NeedsInit(t1)
                     THEN initTransaction(t1, ls, msRes)
                     ELSE [err |-> Nil, tr |-> t1, events |-> <<>>]
         IN IF init.err # Nil
            THEN [ref |-> 0, err |-> init.err, tr |-> init.tr, events |-> init.events]
            ELSE LET add == AddDataPoint(init.tr.metricBuilder, ls, ts, v, seq)
                 IN [ref |-> 0, err |-> add.err,
                     tr |-> [init.tr EXCEPT !.metricBuilder = add.b],
                     events |-> init.events \o <<Ev("AddDataPoint", Len(ls), add.err)>>]

(***************************************************************************)
(* Commit and the passes it runs over the built batch.                     *)
(***************************************************************************)
\* timestampFromFloat64: whole seconds and the fraction as nanoseconds.
timestampFromFloat64(ts) == [set |-> TRUE, secs |-> ts.n, nanos |-> 0]

IsGaugeLike(type) == type \in {"GAUGE_DOUBLE", "GAUGE_DISTRIBUTION"}

adjustStartTimestamp(startTime, metrics) ==
    LET stamp(m) == IF IsGaugeLike(m.type)
                    THEN m
                    ELSE [m EXCEPT !.startTs = timestampFromFloat64(startTime)]
    IN [i \in 1..Len(metrics) |-> stamp(metrics[i])]

\* The pdata data type an OpenCensus descriptor type converts to.
DataType(type) ==
    CASE type \in {"GAUGE_DOUBLE", "GAUGE_INT64"} -> "Gauge"
      [] type \in {"CUMULATIVE_DOUBLE", "CUMULATIVE_INT64"} -> "Sum"
      [] type \in {"CUMULATIVE_DISTRIBUTION", "GAUGE_DISTRIBUTION"} -> "Histogram"
      [] type = "SUMMARY" -> "Summary"
      [] OTHER -> "None"

NoMetrics == [converted |-> FALSE, node |-> NoNode, resource |-> NoResource,
              points |-> <<>>]

OCToMetrics(node, resource, metrics) ==
    [converted |-> TRUE, node |-> node, resource |-> resource, points |-> metrics]

\* Mutant of fixStaleSum: the flag is flipped and the value left in place.
fixStaleSum_flip(dp) ==
    IF IsStaleNaN(dp.v) THEN [dp EXCEPT !.stale = ~dp.stale] ELSE dp

fixStaleSum(dp) ==
    IF IsStaleNaN(dp.v) THEN [dp EXCEPT !.stale = TRUE, !.v = Num(0)] ELSE dp

\* Mutant of fixStaleGauge: every NaN is taken for the stale marker.
fixStaleGauge_anyNaN(dp) ==
    IF dp.v.k # "num" THEN [dp EXCEPT !.stale = TRUE, !.v = Num(0)] ELSE dp

fixStaleGauge(dp) ==
    IF IsStaleNaN(dp.v) THEN [dp EXCEPT !.stale = TRUE, !.v = Num(0)] ELSE dp

fixStaleHistogram(dp) ==
    IF IsStaleNaN(dp.v)
    THEN [dp EXCEPT !.stale = TRUE, !.count = 0, !.v = Num(0), !.buckets = <<>>,
                    !.bounds = <<>>]
    ELSE dp

\* Mutant of fixStaleSummary: a stale quantile value also makes the point
\* stale.
fixStaleSummary_anyQuantile(dp) ==
    IF IsStaleNaN(dp.v) \/ \E i \in 1..Len(dp.quantiles) : IsStaleNaN(dp.quantiles[i])
    THEN [dp EXCEPT !.stale = TRUE, !.count = 0, !.v = Num(0), !.quantiles = <<>>]
    ELSE dp

fixStaleSummary(dp) ==
    IF IsStaleNaN(dp.v)
    THEN [dp EXCEPT !.stale = TRUE, !.count = 0, !.v = Num(0), !.quantiles = <<>>]
    ELSE dp

fixStalePoint(dp) ==
    CASE DataType(dp.type) = "Histogram" -> fixStaleHistogram(dp)
      [] DataType(dp.type) = "Summary" -> fixStaleSummary(dp)
      [] DataType(dp.type) = "Sum" -> fixStaleSum(dp)
      [] DataType(dp.type) = "Gauge" -> fixStaleGauge(dp)
      [] OTHER -> dp

fixStaleMetrics(md) ==
    [md EXCEPT !.points = [i \in 1..Len(md.points) |-> fixStalePoint(md.points[i])]]

DataPointCount(md) == Len(md.points)

(***************************************************************************)
(* JobsMap and the adjuster: per (job, instance), per series, the baseline *)
(* of the current epoch and the last raw value.                            *)
(***************************************************************************)
JobsMapKey(job, instance) == <<job, instance>>

\* Mutant of JobsMapGet: creating an entry drops the entries of the others.
JobsMapGet_alone(jm, job, instance) ==
    IF JobsMapKey(job, instance) \in DOMAIN jm
    THEN jm
    ELSE (JobsMapKey(job, instance) :> <<>>)

\* JobsMap.get: the entry of (job, instance), created on first access.
JobsMapGet(jm, job, instance) ==
    IF JobsMapKey(job, instance) \in DOMAIN jm
    THEN jm
    ELSE (JobsMapKey(job, instance) :> <<>>) @@ jm

IsMonotonicType(type) == DataType(type) = "Sum"

\* Mutant of Less: no value is taken for a reset.
Less_never(a, b) == FALSE

Less(a, b) == a.k = "num" /\ b.k = "num" /\ a.n < b.n

RECURSIVE AdjustPoints(_, _, _)
\* Adjusts points[i..] against the series table, which is a sequence of
\* [name, last, start] records; returns the adjusted points and the table.
AdjustPoints(points, i, table) ==
    IF i > Len(points)
    THEN [points |-> points, table |-> table]
    ELSE LET p == points[i]
             known == {k \in 1..Len(table) : table[k].name = p.name}
         IN IF ~IsMonotonicType(p.type)
            THEN AdjustPoints(points, i + 1, table)
            ELSE IF known = {}
            THEN AdjustPoints(points, i + 1,
                     Append(table, [name |-> p.name, last |-> p.v, start |-> p.t]))
            ELSE LET k == CHOOSE x \in known : TRUE
                     e == table[k]
                 IN IF Less(p.v, e.last)
                    THEN AdjustPoints(points, i + 1,
                             [table EXCEPT ![k] = [e EXCEPT !.last = p.v, !.start = p.t]])
                    ELSE AdjustPoints(
                             [points EXCEPT ![i].startTs =
                                 [set |-> TRUE, secs |-> e.start, nanos |-> 0]],
                             i + 1,
                             [table EXCEPT ![k].last = p.v])

\* AdjustMetrics on the entry of one (job, instance).
AdjustMetrics(entry, md) ==
    LET r == AdjustPoints(md.points, 1, entry)
    IN [md |-> [md EXCEPT !.points = r.points], entry |-> r.table]

\* Mutants of CommitIsNoop: the test dropped, and the test always taken.
CommitIsNoop_never(t) == FALSE

CommitIsNoop_always(t) == TRUE

\* Commit's first test: a transaction that was never initialized.
CommitIsNoop(t) == t.isNew

\* Mutant of StartTimeMissing: the test dropped.
StartTimeMissing_never(b) == FALSE

\* The missing-start-time test of Commit.
StartTimeMissing(b) == b.startTime = Num(0)

\* The frame of one Commit call: its locals, the calls it has made so far
\* (events), and what it handed to the sink (sent).
NewFrame(t, jm, sinkRes) ==
    [t |-> t, jm |-> jm, sinkRes |-> sinkRes, metrics |-> <<>>, md |-> NoMetrics,
     numPoints |-> 0, err |-> Nil, events |-> <<>>, sent |-> <<>>]

Emit(f, e) == [f EXCEPT !.events = Append(@, e)]

\* Mutant of StepBuild: Build is called a second time.
StepBuild_twice(f) ==
    LET b == Build(f.t.metricBuilder)
    IN [Emit(Emit(Emit(f, Ev("StartMetricsOp", 0, Nil)), Ev("Build", 0, b.err)),
             Ev("Build", 0, b.err))
          EXCEPT !.metrics = b.metrics, !.err = b.err]

\* ctx := StartMetricsOp(tr.ctx); metrics, _, _, err := Build()
StepBuild(f) ==
    LET b == Build(f.t.metricBuilder)
    IN [Emit(Emit(f, Ev("StartMetricsOp", 0, Nil)), Ev("Build", 0, b.err))
          EXCEPT !.metrics = b.metrics, !.err = b.err]

\* Mutant of OnBuildError: the error is reported but not returned.
OnBuildError_swallow(f) == [Emit(f, Ev("EndMetricsOp", 0, f.err)) EXCEPT !.err = Nil]

\* if err != nil { EndMetricsOp(ctx, dataformat, 0, err); return err }
OnBuildError(f) == Emit(f, Ev("EndMetricsOp", 0, f.err))

\* Mutant of OnMissingStartTime: the return without EndMetricsOp.
OnMissingStartTime_noEnd(f) == [f EXCEPT !.err = errNoStartTimeMetrics]

\* err = errNoStartTimeMetrics; EndMetricsOp(ctx, dataformat, 0, err); return err
OnMissingStartTime(f) ==
    [Emit(f, Ev("EndMetricsOp", 0, errNoStartTimeMetrics))
       EXCEPT !.err = errNoStartTimeMetrics]

\* adjustStartTimestamp(tr.metricBuilder.startTime, metrics)
StepAdjustStart(f) ==
    [Emit(f, Ev("adjustStartTimestamp", 0, Nil))
       EXCEPT !.metrics = adjustStartTimestamp(f.t.metricBuilder.startTime, f.metrics)]

\* Mutant of StepConvert: the staleness fix is left out.
StepConvert_noFix(f) ==
    IF Len(f.metrics) > 0
    THEN LET md == OCToMetrics(f.t.node, f.t.resource, f.metrics)
         IN [Emit(f, Ev("OCToMetrics", 0, Nil))
               EXCEPT !.md = md, !.numPoints = DataPointCount(md)]
    ELSE f

\* if len(metrics) > 0 { md = OCToMetrics(...); fixStaleMetrics(&md); numPoints = ... }
StepConvert(f) ==
    IF Len(f.metrics) > 0
    THEN LET md == fixStaleMetrics(OCToMetrics(f.t.node, f.t.resource, f.metrics))
         IN [Emit(Emit(f, Ev("OCToMetrics", 0, Nil)), Ev("fixStaleMetrics", 0, Nil))
               EXCEPT !.md = md, !.numPoints = DataPointCount(md)]
    ELSE f

\* Mutant of StepAdjust: the adjuster is skipped for a batch without points.
StepAdjust_nonEmpty(f) ==
    IF ~f.t.useStartTimeMetric /\ f.numPoints > 0
    THEN LET key == JobsMapKey(f.t.job, f.t.instance)
             jm1 == JobsMapGet(f.jm, f.t.job, f.t.instance)
             ar == AdjustMetrics(jm1[key], f.md)
         IN [Emit(f, Ev("AdjustMetrics", 0, Nil))
               EXCEPT !.md = ar.md, !.jm = [jm1 EXCEPT ![key] = ar.entry]]
    ELSE f

\* Mutant of StepAdjust: the JobsMap adjuster runs in either mode.
StepAdjust_always(f) ==
    LET key == JobsMapKey(f.t.job, f.t.instance)
        jm1 == JobsMapGet(f.jm, f.t.job, f.t.instance)
        ar == AdjustMetrics(jm1[key], f.md)
    IN [Emit(f, Ev("AdjustMetrics", 0, Nil))
          EXCEPT !.md = ar.md, !.jm = [jm1 EXCEPT ![key] = ar.entry]]

\* if !tr.useStartTimeMetric { AdjustMetrics on jobsMap.get(tr.job, tr.instance) }
StepAdjust(f) ==
    IF ~f.t.useStartTimeMetric
    THEN LET key == JobsMapKey(f.t.job, f.t.instance)
             jm1 == JobsMapGet(f.jm, f.t.job, f.t.instance)
             ar == AdjustMetrics(jm1[key], f.md)
         IN [Emit(f, Ev("AdjustMetrics", 0, Nil))
               EXCEPT !.md = ar.md, !.jm = [jm1 EXCEPT ![key] = ar.entry]]
    ELSE f

\* Mutant of StepSink: the sink's error is dropped.
StepSink_swallow(f) ==
    IF f.numPoints > 0
    THEN [Emit(f, Ev("ConsumeMetrics", f.numPoints, f.sinkRes))
            EXCEPT !.sent = <<f.md>>]
    ELSE f

\* Mutant of StepSink: the sink is called whatever the number of points.
StepSink_always(f) ==
    [Emit(f, Ev("ConsumeMetrics", f.numPoints, f.sinkRes))
       EXCEPT !.err = f.sinkRes, !.sent = <<f.md>>]

\* Mutant of StepSink: a failed delivery is tried a second time.
StepSink_retry(f) ==
    IF f.numPoints > 0
    THEN LET f1 == [Emit(f, Ev("ConsumeMetrics", f.numPoints, f.sinkRes))
                      EXCEPT !.err = f.sinkRes, !.sent = <<f.md>>]
         IN IF f.sinkRes # Nil
            THEN Emit(f1, Ev("ConsumeMetrics", f.numPoints, f.sinkRes))
            ELSE f1
    ELSE f

\* if numPoints > 0 { err = tr.sink.ConsumeMetrics(ctx, md) }
StepSink(f) ==
    IF f.numPoints > 0
    THEN [Emit(f, Ev("ConsumeMetrics", f.numPoints, f.sinkRes))
            EXCEPT !.err = f.sinkRes, !.sent = <<f.md>>]
    ELSE f

\* EndMetricsOp(ctx, dataformat, numPoints, err); return err
StepEnd(f) == Emit(f, Ev("EndMetricsOp", f.numPoints, f.err))

\* Mutant of ResetStartTime: the tracking is left as it is.
ResetStartTime_keep(t) == t

\* tr.startTimeMs = -1
ResetStartTime(t) == [t EXCEPT !.startTimeMs = -1]

\* Commit() on transaction t; sinkRes: what ConsumeMetrics returns if called.
CommitRun(t, jm, sinkRes) ==
    IF CommitIsNoop(t)
    THEN [err |-> Nil, tr |-> t, jobsMap |-> jm, sent |-> <<>>, events |-> <<>>]
    ELSE
    LET t1 == ResetStartTime(t)
        f1 == StepBuild(NewFrame(t, jm, sinkRes))
        f2 == IF f1.err # Nil
              THEN OnBuildError(f1)
              ELSE IF t.useStartTimeMetric /\ StartTimeMissing(t.metricBuilder)
              THEN OnMissingStartTime(f1)
              ELSE StepEnd(StepSink(StepAdjust(StepConvert(
                       IF t.useStartTimeMetric THEN StepAdjustStart(f1) ELSE f1))))
    IN [err |-> f2.err, tr |-> t1, jobsMap |-> f2.jm, sent |-> f2.sent,
        events |-> f2.events]

\* Mutant of RollbackRun: the accumulated data points are discarded.
RollbackRun_discard(t) ==
    [err |-> Nil, tr |-> [ResetStartTime(t) EXCEPT !.metricBuilder.points = <<>>]]

\* Mutant of RollbackRun: the transaction is made new again.
RollbackRun_renew(t) == [err |-> Nil, tr |-> [ResetStartTime(t) EXCEPT !.isNew = TRUE]]

\* Rollback()
RollbackRun(t) == [err |-> Nil, tr |-> ResetStartTime(t)]

(***************************************************************************)
(* The state machine: one transaction driven by its scrape loop.           *)
(***************************************************************************)
\* No scrape loop runs beside the one that drives tr.
NoProcs == [idSeq |-> 0]

\* No Get of the ECS client is under way.  An error is the sequence of the
\* parts of its message, the nil error the empty one; a body is nil or the
\* bytes read.
NoError == <<>>
NilBody == [isNil |-> TRUE, data |-> ""]

NoGet == [pc |-> "idle", path |-> "", reqErr |-> NoError,
          do |-> [err |-> NoError, code |-> 0, data |-> "", readErr |-> NoError,
                  closeErr |-> NoError],
          hasResp |-> FALSE, read |-> NilBody, closes |-> 0, log |-> <<>>,
          returned |-> FALSE, body |-> NilBody, err |-> NoError]

\* No scrape of the Elasticsearch scraper is under way.
\* The nil error of scrape.
NoScrapeError == [partial |-> FALSE, msgs |-> <<>>]

NoScrapeResult == [returned |-> FALSE, nodePoints |-> 0, clusterPoints |-> 0,
                   err |-> NoScrapeError]

NoScraper == [pc |-> "idle", skipClusterMetrics |-> FALSE,
              nodeStats |-> [err |-> Nil, nodes |-> 0],
              clusterHealth |-> [err |-> Nil, status |-> "green"],
              called |-> {}, errs |-> <<>>, nodePoints |-> 0, clusterPoints |-> 0,
              ret |-> NoScrapeResult]

\* No function of the file has been applied on its own.
NoApplication == [op |-> "none", startTime |-> Num(0), in |-> <<>>, out |-> <<>>]

\* No Commit or Rollback is executing.
IdleCall == [pc |-> "idle", op |-> "none", ctxAtInvoke |-> FALSE, jm0 |-> <<>>,
             f |-> NewFrame(newTransaction(FALSE, <<>>), <<>>, Nil)]

NoCall == [op |-> "none", ls |-> <<>>, t |-> 0, err |-> Nil, ref |-> 0, events |-> <<>>,
           ctxDone |-> FALSE, sent |-> <<>>, sinkRes |-> Nil]

Init ==
    /\ \E u \in BOOLEAN, ext \in ExternalLabelSets : tr = newTransaction(u, ext)
    /\ ctxDone = FALSE
    /\ jobsMap = <<>>
    /\ cnt = [appends |-> 0, commits |-> 0, rollbacks |-> 0, msGet |-> 0,
              inits |-> 0, builds |-> 0, sinkCalls |-> 0,
              rollbackSeq |-> 0]
    /\ last = NoCall
    /\ call = IdleCall
    /\ fn = NoApplication
    /\ ecs = NoGet
    /\ sc = NoScraper
    /\ procs = NoProcs

CountOf(events, op) == Cardinality({i \in 1..Len(events) : events[i].op = op})

\* What the MetadataService may answer in the next Append: the lookup is
\* reached only by a transaction that is new and whose context is live.
MsOutcomes == IF tr.isNew /\ ~ctxDone THEN MsResults ELSE {Nil}

\* Append with one sample out of samples, and what it leaves in the
\* transaction.
AppendCall(samples) ==
    /\ \E s \in samples, msRes \in MsOutcomes :
         LET r == AppendRun(tr, ctxDone, s.ls, s.t, s.v, msRes, cnt.appends + 1)
         IN /\ tr' = r.tr
            /\ cnt' = [cnt EXCEPT !.appends = @ + 1,
                                  !.msGet = @ + CountOf(r.events, "ms.Get"),
                                  !.inits = @ + CountOf(r.events, "newMetricBuilder")]
            /\ last' = [op |-> "Append", ls |-> s.ls, t |-> s.t, err |-> r.err, ref |-> r.ref,
                        events |-> r.events, ctxDone |-> ctxDone,
                        sent |-> <<>>, sinkRes |-> Nil]

\* The scrape loop calls Append with one sample out of samples.
AppendOf(samples) ==
    /\ cnt.appends < MaxAppends
    /\ AppendCall(samples)
    /\ UNCHANGED <<ctxDone, jobsMap, call, fn, procs, sc, ecs>>

TxAppend == AppendOf(SampleInputs)

\* Commit() and what it leaves in the transaction and the JobsMap.
CommitCall ==
    /\ cnt.commits < MaxCommits
    /\ \E sinkRes \in {Nil} \cup SinkErrors :
         LET r == CommitRun(tr, jobsMap, sinkRes)
         IN /\ tr' = r.tr
            /\ jobsMap' = r.jobsMap
            /\ cnt' = [cnt EXCEPT !.commits = @ + 1,
                                  !.builds = @ + CountOf(r.events, "Build"),
                                  !.sinkCalls = @ + CountOf(r.events, "ConsumeMetrics")]
            /\ last' = [op |-> "Commit", ls |-> <<>>, t |-> 0, err |-> r.err, ref |-> 0,
                        events |-> r.events, ctxDone |-> ctxDone,
                        sent |-> r.sent, sinkRes |-> sinkRes]

\* The scrape loop calls Commit.
Commit == CommitCall /\ UNCHANGED <<ctxDone, call, fn, procs, sc, ecs>>

\* Rollback() and what it leaves in the transaction.
RollbackCall ==
    /\ cnt.rollbacks < MaxRollbacks
    /\ LET r == RollbackRun(tr)
       IN /\ tr' = r.tr
          /\ cnt' = [cnt EXCEPT !.rollbacks = @ + 1, !.rollbackSeq = cnt.appends]
          /\ last' = [op |-> "Rollback", ls |-> <<>>, t |-> 0, err |-> r.err, ref |-> 0,
                      events |-> <<>>, ctxDone |-> ctxDone,
                      sent |-> <<>>, sinkRes |-> Nil]

\* The scrape loop calls Rollback.
Rollback == RollbackCall /\ UNCHANGED <<ctxDone, jobsMap, call, fn, procs, sc, ecs>>

\* The scrape's context is cancelled (timeout or shutdown).
Cancel ==
    /\ ~ctxDone
    /\ ctxDone' = TRUE
    /\ UNCHANGED <<tr, jobsMap, cnt, last, call, fn, procs, sc, ecs>>

Next == TxAppend \/ Commit \/ Rollback \/ Cancel

Spec == Init /\ [][Next]_vars

(***************************************************************************)
(* The first Appends of a transaction, over label sets in which job or     *)
(* instance is absent, present but empty, or present.                      *)
(***************************************************************************)
InitSamples ==
    { [ls |-> ls, t |-> 1, v |-> Num(1)] :
        ls \in { <<L(MetricNameLabel, "reqs_total")>> \o i \o j :
                   i \in { <<>>, <<L(InstanceLabel, "")>>, <<L(InstanceLabel, "h1:80")>> },
                   j \in { <<>>, <<L(JobLabel, "")>>, <<L(JobLabel, "j1")>> } } }

AppendFirst == AppendOf(InitSamples)

NextInit == AppendFirst \/ Commit \/ Rollback \/ Cancel

SpecInit == Init /\ [][NextInit]_vars

(***************************************************************************)
(* Transactions configured with external labels: a job and an instance, a  *)
(* job alone, or a label that names neither.                               *)
(***************************************************************************)
ConfiguredExternalLabels ==
    { <<L(JobLabel, "je"), L(InstanceLabel, "h9")>>,
      <<L(JobLabel, "je")>>,
      <<L("region", "eu")>> }

InitExt ==
    /\ \E u \in BOOLEAN, ext \in ConfiguredExternalLabels : tr = newTransaction(u, ext)
    /\ ctxDone = FALSE
    /\ jobsMap = <<>>
    /\ cnt = [appends |-> 0, commits |-> 0, rollbacks |-> 0, msGet |-> 0,
              inits |-> 0, builds |-> 0, sinkCalls |-> 0,
              rollbackSeq |-> 0]
    /\ last = NoCall
    /\ call = IdleCall
    /\ fn = NoApplication
    /\ ecs = NoGet
    /\ sc = NoScraper
    /\ procs = NoProcs

AppendOverlaid == AppendOf(InitSamples)

NextExt == AppendOverlaid \/ Commit \/ Rollback \/ Cancel

SpecExt == InitExt /\ [][NextExt]_vars

(***************************************************************************)
(* Scrapes whose builder may hold nothing but an incomplete family, so     *)
(* that Build succeeds with a batch that has no data point.                *)
(***************************************************************************)
PartialSamples ==
    { [ls |-> MkLabels("j1", "h1:80", m), t |-> 1, v |-> Num(5)] :
        m \in {"reqs_total", "lat_bucket", startTimeMetricName} }

AppendPartial == AppendOf(PartialSamples)

NextPartial == AppendPartial \/ Commit \/ Rollback \/ Cancel

SpecPartial == Init /\ [][NextPartial]_vars

(***************************************************************************)
(* The whole storage.Appender interface: Append, AppendExemplar, AddFast,  *)
(* Commit and Rollback.                                                    *)
(***************************************************************************)
\* The samples appended around the calls: a counter, its stale marker, the
\* start-time metric and a sample without a metric name.
CallSamples ==
    {s \in SampleInputs :
        /\ Get(s.ls, JobLabel) = "j1"
        /\ s.v # Num(0)}

\* Series references a caller may pass in.
RefInputs == {0, 7}

\* Mutant of AppendExemplarRun: the reference passed in is handed back.
AppendExemplarRun_echo(t, ref) == [ref |-> ref, err |-> Nil, tr |-> t]

\* AppendExemplar(ref, l, e)
AppendExemplarRun(t, ref) == [ref |-> 0, err |-> Nil, tr |-> t]

\* AddFast(ref, t, v)
AddFastRun(t, ref) == [err |-> ErrNotFound, tr |-> t]

AppendExemplar ==
    /\ \E ref \in RefInputs :
         LET r == AppendExemplarRun(tr, ref)
         IN /\ tr' = r.tr
            /\ last' = [op |-> "AppendExemplar", ls |-> <<>>, t |-> 0, err |-> r.err,
                        ref |-> r.ref, events |-> <<>>, ctxDone |-> ctxDone,
                        sent |-> <<>>, sinkRes |-> Nil]
    /\ UNCHANGED <<ctxDone, jobsMap, cnt, call, fn, procs, sc, ecs>>

AddFast ==
    /\ \E ref \in RefInputs :
         LET r == AddFastRun(tr, ref)
         IN /\ tr' = r.tr
            /\ last' = [op |-> "AddFast", ls |-> <<>>, t |-> 0, err |-> r.err,
                        ref |-> 0, events |-> <<>>, ctxDone |-> ctxDone,
                        sent |-> <<>>, sinkRes |-> Nil]
    /\ UNCHANGED <<ctxDone, jobsMap, cnt, call, fn, procs, sc, ecs>>

AppendSample == AppendOf(CallSamples)

NextAppender ==
    AppendSample \/ AppendExemplar \/ AddFast \/ Commit \/ Rollback \/ Cancel

SpecAppender == Init /\ [][NextAppender]_vars

(***************************************************************************)
(* Commit and Rollback statement by statement, so that the context can be  *)
(* cancelled while a call is executing.  Neither function reads tr.ctx     *)
(* after it was invoked; the context is only handed on to StartMetricsOp.  *)
(***************************************************************************)
\* Mutant of AfterBuild: the call blocks after Build.
AfterBuild_hang(f) == "hang"

\* Where Commit goes after Build: lines 180-198.
AfterBuild(f) ==
    IF f.err # Nil
    THEN "buildError"
    ELSE IF f.t.useStartTimeMetric /\ StartTimeMissing(f.t.metricBuilder)
    THEN "missingStartTime"
    ELSE "convert"

\* Commit is invoked: the isNew test and the reset of startTimeMs.
InvokeCommit ==
    /\ call.pc = "idle"
    /\ cnt.commits < MaxCommits
    /\ call' = [pc |-> IF CommitIsNoop(tr) THEN "return" ELSE "build",
                op |-> "Commit", ctxAtInvoke |-> ctxDone, jm0 |-> jobsMap,
                f |-> NewFrame(tr, jobsMap, Nil)]
    /\ tr' = IF CommitIsNoop(tr) THEN tr ELSE ResetStartTime(tr)
    /\ UNCHANGED <<ctxDone, jobsMap, cnt, last, fn, procs, sc, ecs>>

\* StartMetricsOp and Build.
CommitBuild ==
    /\ call.pc = "build"
    /\ LET f1 == StepBuild(call.f)
       IN call' = [call EXCEPT !.f = f1, !.pc = AfterBuild(f1)]
    /\ UNCHANGED <<tr, ctxDone, jobsMap, cnt, last, fn, procs, sc, ecs>>

\* The two early returns after Build.
CommitFail ==
    /\ call.pc \in {"buildError", "missingStartTime"}
    /\ call' = [call EXCEPT !.f = IF call.pc = "buildError"
                                  THEN OnBuildError(call.f)
                                  ELSE OnMissingStartTime(call.f),
                            !.pc = "return"]
    /\ UNCHANGED <<tr, ctxDone, jobsMap, cnt, last, fn, procs, sc, ecs>>

\* Start-time stamping, conversion, staleness fix and the JobsMap adjuster.
CommitConvert ==
    /\ call.pc = "convert"
    /\ call' = [call EXCEPT
                  !.f = StepAdjust(StepConvert(IF call.f.t.useStartTimeMetric
                                               THEN StepAdjustStart(call.f)
                                               ELSE call.f)),
                  !.pc = "sink"]
    /\ UNCHANGED <<tr, ctxDone, jobsMap, cnt, last, fn, procs, sc, ecs>>

\* The sink call, with what the sink answers, and EndMetricsOp.
CommitSink ==
    /\ call.pc = "sink"
    /\ \E sinkRes \in {Nil} \cup SinkErrors :
         call' = [call EXCEPT
                    !.f = StepEnd(StepSink([call.f EXCEPT !.sinkRes = sinkRes])),
                    !.pc = "return"]
    /\ UNCHANGED <<tr, ctxDone, jobsMap, cnt, last, fn, procs, sc, ecs>>

\* Commit returns to the scrape loop.
CommitReturn ==
    /\ call.pc = "return"
    /\ call.op = "Commit"
    /\ jobsMap' = call.f.jm
    /\ cnt' = [cnt EXCEPT !.commits = @ + 1,
                          !.builds = @ + CountOf(call.f.events, "Build"),
                          !.sinkCalls = @ + CountOf(call.f.events, "ConsumeMetrics")]
    /\ last' = [op |-> "Commit", ls |-> <<>>, t |-> 0, err |-> call.f.err, ref |-> 0,
                events |-> call.f.events, ctxDone |-> ctxDone,
                sent |-> call.f.sent, sinkRes |-> call.f.sinkRes]
    /\ call' = IdleCall
    /\ UNCHANGED <<tr, ctxDone, fn, procs, sc, ecs>>

\* Rollback is invoked.
InvokeRollback ==
    /\ call.pc = "idle"
    /\ cnt.rollbacks < MaxRollbacks
    /\ call' = [pc |-> "rollback", op |-> "Rollback", ctxAtInvoke |-> ctxDone,
                jm0 |-> jobsMap, f |-> NewFrame(tr, jobsMap, Nil)]
    /\ UNCHANGED <<tr, ctxDone, jobsMap, cnt, last, fn, procs, sc, ecs>>

\* Rollback resets startTimeMs and returns nil.
RollbackReturn ==
    /\ call.pc = "rollback"
    /\ LET r == RollbackRun(tr)
       IN /\ tr' = r.tr
          /\ cnt' = [cnt EXCEPT !.rollbacks = @ + 1, !.rollbackSeq = cnt.appends]
          /\ last' = [op |-> "Rollback", ls |-> <<>>, t |-> 0, err |-> r.err, ref |-> 0,
                      events |-> <<>>, ctxDone |-> ctxDone,
                      sent |-> <<>>, sinkRes |-> Nil]
    /\ call' = IdleCall
    /\ UNCHANGED <<ctxDone, jobsMap, fn, procs, sc, ecs>>

\* Appends are made between the calls, never during one.
AppendBetweenCalls == call.pc = "idle" /\ AppendOf(CallSamples)

\* The context may be cancelled at any moment, also while a call executes.
NextCalls ==
    \/ AppendBetweenCalls
    \/ InvokeCommit \/ CommitBuild \/ CommitFail \/ CommitConvert \/ CommitSink
    \/ CommitReturn
    \/ InvokeRollback \/ RollbackReturn
    \/ Cancel

\* A call that was invoked keeps executing: Build and the sink return.
CallProgress ==
    WF_vars(CommitBuild \/ CommitFail \/ CommitConvert \/ CommitSink
              \/ CommitReturn \/ RollbackReturn)

SpecCalls == Init /\ [][NextCalls]_vars /\ CallProgress

(***************************************************************************)
(* The passes of Commit applied on their own to batches of every           *)
(* descriptor type: adjustStartTimestamp to a slice of built metrics,      *)
(* fixStaleMetrics to the converted batch.                                 *)
(***************************************************************************)
DescriptorTypes ==
    {"UNSPECIFIED", "GAUGE_INT64", "GAUGE_DOUBLE", "GAUGE_DISTRIBUTION",
     "CUMULATIVE_INT64", "CUMULATIVE_DOUBLE", "CUMULATIVE_DISTRIBUTION", "SUMMARY"}

\* An integer point holds no NaN; its DoubleVal reads as a number.
ValuesOf(type) ==
    IF type \in {"GAUGE_INT64", "CUMULATIVE_INT64"}
    THEN {Num(1)}
    ELSE {Num(1), StaleNaN, OrdinaryNaN}

BatchPoint(type, v) ==
    [name |-> "m", type |-> type, t |-> 1, v |-> v, startTs |-> NoTimestamp,
     stale |-> FALSE, seq |-> 0,
     count |-> IF DataType(type) \in {"Histogram", "Summary"} THEN 2 ELSE 0,
     buckets |-> IF DataType(type) = "Histogram" THEN <<1, 1>> ELSE <<>>,
     bounds |-> IF DataType(type) = "Histogram" THEN <<10>> ELSE <<>>,
     quantiles |-> IF DataType(type) = "Summary" THEN <<Num(1)>> ELSE <<>>]

BatchPoints == UNION {{BatchPoint(type, v) : v \in ValuesOf(type)} : type \in DescriptorTypes}

Batches == UNION {[1..n -> BatchPoints] : n \in 0..MaxMetrics}

InitFn ==
    /\ tr = newTransaction(FALSE, <<>>)
    /\ ctxDone = FALSE
    /\ jobsMap = <<>>
    /\ cnt = [appends |-> 0, commits |-> 0, rollbacks |-> 0, msGet |-> 0,
              inits |-> 0, builds |-> 0, sinkCalls |-> 0,
              rollbackSeq |-> 0]
    /\ last = NoCall
    /\ call = IdleCall
    /\ ecs = NoGet
    /\ sc = NoScraper
    /\ procs = NoProcs
    /\ \E b \in Batches, st \in {Num(5), Num(7)} :
         fn = [op |-> "none", startTime |-> st, in |-> b, out |-> <<>>]

\* adjustStartTimestamp(startTime, metrics)
ApplyAdjustStartTimestamp ==
    /\ fn.op = "none"
    /\ fn' = [fn EXCEPT !.op = "adjustStartTimestamp",
                        !.out = adjustStartTimestamp(fn.startTime, fn.in)]
    /\ UNCHANGED <<tr, ctxDone, jobsMap, cnt, last, call, procs, sc, ecs>>

\* fixStaleMetrics(&md) on the converted batch
ApplyFixStaleMetrics ==
    /\ fn.op = "none"
    /\ fn' = [fn EXCEPT !.op = "fixStaleMetrics",
                        !.out = fixStaleMetrics(OCToMetrics(NoNode, NoResource, fn.in)).points]
    /\ UNCHANGED <<tr, ctxDone, jobsMap, cnt, last, call, procs, sc, ecs>>

NextFn == ApplyAdjustStartTimestamp \/ ApplyFixStaleMetrics

SpecFn == InitFn /\ [][NextFn]_vars

(***************************************************************************)
(* newTransaction called by several scrape loops: the id is taken from the *)
(* shared sequence idSeq by one atomic add, the rest of the construction   *)
(* follows, and the calls of different loops interleave.                   *)
(***************************************************************************)
Loops == 1..MaxLoops

\* Mutant of atomicAddInt64: the sum is returned but not stored.
atomicAddInt64_lost(mem, delta) == [mem |-> mem, ret |-> mem + delta]

\* atomic.AddInt64(&mem, delta): stores and returns the sum in one step.
atomicAddInt64(mem, delta) == [mem |-> mem + delta, ret |-> mem + delta]

\* taken: the ids in the order of the atomic adds; returned: the ids in the
\* order in which the calls of newTransaction returned.
InitIds ==
    /\ tr = newTransaction(FALSE, <<>>)
    /\ ctxDone = FALSE
    /\ jobsMap = <<>>
    /\ cnt = [appends |-> 0, commits |-> 0, rollbacks |-> 0, msGet |-> 0,
              inits |-> 0, builds |-> 0, sinkCalls |-> 0,
              rollbackSeq |-> 0]
    /\ last = NoCall
    /\ call = IdleCall
    /\ fn = NoApplication
    /\ ecs = NoGet
    /\ sc = NoScraper
    /\ procs = [idSeq |-> 0, pc |-> [l \in Loops |-> "idle"],
                id |-> [l \in Loops |-> 0], taken |-> <<>>, returned |-> <<>>]

\* id: atomic.AddInt64(&idSeq, 1)
NewTransactionId(l) ==
    /\ procs.pc[l] = "idle"
    /\ Len(procs.taken) < MaxTransactions
    /\ LET r == atomicAddInt64(procs.idSeq, 1)
       IN procs' = [procs EXCEPT !.idSeq = r.mem, !.id[l] = r.ret,
                                 !.taken = Append(@, r.ret),
                                 !.pc[l] = "construct"]
    /\ UNCHANGED <<tr, ctxDone, jobsMap, cnt, last, call, fn, sc, ecs>>

\* The other fields are set and the transaction is returned.
NewTransactionReturn(l) ==
    /\ procs.pc[l] = "construct"
    /\ procs' = [procs EXCEPT !.returned = Append(@, procs.id[l]), !.pc[l] = "idle"]
    /\ UNCHANGED <<tr, ctxDone, jobsMap, cnt, last, call, fn, sc, ecs>>

NextIds == \E l \in Loops : NewTransactionId(l) \/ NewTransactionReturn(l)

SpecIds == InitIds /\ [][NextIds]_vars

(***************************************************************************)
(* Appends with timestamps on both sides of zero.  fn.in keeps the         *)
(* timestamps of the Append calls made since construction or since the     *)
(* last Rollback.                                                          *)
(***************************************************************************)
MaxTimedAppends == 3

TimedSamples ==
    { [ls |-> MkLabels(j, "h1:80", "reqs_total"), t |-> t, v |-> Num(1)] :
        j \in {"", "j1"}, t \in {-2, 0, 3} }

AppendTimed ==
    /\ cnt.appends < MaxTimedAppends
    /\ AppendCall(TimedSamples)
    /\ fn' = [fn EXCEPT !.in = Append(@, last'.t)]
    /\ UNCHANGED <<ctxDone, jobsMap, call, procs, sc, ecs>>

RollbackTimed ==
    /\ RollbackCall
    /\ fn' = [fn EXCEPT !.in = <<>>]
    /\ UNCHANGED <<ctxDone, jobsMap, call, procs, sc, ecs>>

NextTimed == AppendTimed \/ Commit \/ RollbackTimed \/ Cancel

SpecTimed == Init /\ [][NextTimed]_vars

(***************************************************************************)
(* fixStaleMetrics applied, and applied again to its own result, on        *)
(* batches whose histogram and summary points vary in every field.         *)
(***************************************************************************)
\* Histogram and summary points of every sum, with and without
\* observations, the quantile of a summary being a number or the marker.
DistributionPoints ==
    { [BatchPoint(type, v) EXCEPT !.count = c, !.stale = st]
        : type \in {"GAUGE_DISTRIBUTION", "CUMULATIVE_DISTRIBUTION"},
          v \in {Num(1), StaleNaN, OrdinaryNaN}, c \in {0, 2}, st \in BOOLEAN }

SummaryPoints ==
    { [BatchPoint("SUMMARY", v) EXCEPT !.count = c, !.quantiles = <<q>>]
        : v \in {Num(1), StaleNaN, OrdinaryNaN}, c \in {0, 2}, q \in {Num(1), StaleNaN} }

StalePoints == BatchPoints \cup DistributionPoints \cup SummaryPoints

StaleBatches == UNION {[1..n -> StalePoints] : n \in 0..MaxMetrics}

InitStale ==
    /\ tr = newTransaction(FALSE, <<>>)
    /\ ctxDone = FALSE
    /\ jobsMap = <<>>
    /\ cnt = [appends |-> 0, commits |-> 0, rollbacks |-> 0, msGet |-> 0,
              inits |-> 0, builds |-> 0, sinkCalls |-> 0,
              rollbackSeq |-> 0]
    /\ last = NoCall
    /\ call = IdleCall
    /\ ecs = NoGet
    /\ sc = NoScraper
    /\ procs = NoProcs
    /\ \E b \in StaleBatches :
         fn = [op |-> "none", startTime |-> Num(0), in |-> b, out |-> <<>>]

\* fixStaleMetrics(&md) on a batch it has already fixed
ReapplyFixStaleMetrics ==
    /\ fn.op = "fixStaleMetrics"
    /\ fn' = [fn EXCEPT !.op = "fixStaleMetrics again",
                        !.in = fn.out,
                        !.out = fixStaleMetrics(OCToMetrics(NoNode, NoResource, fn.out)).points]
    /\ UNCHANGED <<tr, ctxDone, jobsMap, cnt, last, call, procs, sc, ecs>>

NextStale == ApplyFixStaleMetrics \/ ReapplyFixStaleMetrics

SpecStale == InitStale /\ [][NextStale]_vars

(***************************************************************************)
(* Successive scrapes of one target: every scrape has a transaction of its *)
(* own, appends at most one sample of the counter series, and ends with    *)
(* one Commit or Rollback; all of them share the JobsMap.  fn.out keeps    *)
(* the points of the series handed to the sink so far.                     *)
(***************************************************************************)
\* Raw values of the counter in scrape n, stamped with the scrape's time.
ScrapeSamples(n) ==
    { [ls |-> MkLabels("j1", "h1:80", "reqs_total"), t |-> n, v |-> Num(x)] :
        x \in 1..3 }

InitScrapes ==
    /\ tr = newTransaction(FALSE, <<>>)
    /\ ctxDone = FALSE
    /\ jobsMap = <<>>
    /\ cnt = [appends |-> 0, commits |-> 0, rollbacks |-> 0, msGet |-> 0,
              inits |-> 0, builds |-> 0, sinkCalls |-> 0,
              rollbackSeq |-> 0]
    /\ last = NoCall
    /\ call = IdleCall
    /\ fn = NoApplication
    /\ ecs = NoGet
    /\ sc = NoScraper
    /\ procs = [idSeq |-> 1]

AppendScraped == cnt.appends = 0 /\ AppendOf(ScrapeSamples(procs.idSeq))

\* The points of the series among those the last call handed to the sink.
ForwardedBy(c) ==
    IF c.sent = <<>>
    THEN <<>>
    ELSE SelectSeq(c.sent[1].points, LAMBDA p : p.name = "reqs_total")

CommitScrape ==
    /\ cnt.commits = 0
    /\ cnt.rollbacks = 0
    /\ CommitCall
    /\ fn' = [fn EXCEPT !.out = @ \o ForwardedBy(last')]
    /\ UNCHANGED <<ctxDone, call, procs, sc, ecs>>

RollbackScrape == cnt.commits = 0 /\ Rollback

\* The scrape loop starts the next scrape with a transaction of its own.
NewScrape ==
    /\ procs.idSeq < MaxTransactions
    /\ procs' = [procs EXCEPT !.idSeq = atomicAddInt64(procs.idSeq, 1).mem]
    /\ tr' = newTransaction(FALSE, <<>>)
    /\ ctxDone' = FALSE
    /\ cnt' = [cnt EXCEPT !.appends = 0, !.commits = 0, !.rollbacks = 0]
    /\ UNCHANGED <<jobsMap, last, call, fn, sc, ecs>>

NextScrapes == AppendScraped \/ CommitScrape \/ RollbackScrape \/ Cancel \/ NewScrape

SpecScrapes == InitScrapes /\ [][NextScrapes]_vars

(***************************************************************************)
(* Two scrape loops, of different targets, whose transactions commit       *)
(* against the same JobsMap at the same time.  A Commit reaches the        *)
(* JobsMap in two calls, jobsMap.get(job, instance) and AdjustMetrics on   *)
(* the entry it returned, and the calls of the two loops interleave.  Per  *)
(* loop, procs keeps the batch in flight, what the adjuster made of each   *)
(* batch, and the same for a JobsMap that only this loop ever uses.        *)
(***************************************************************************)
Targets == {"A", "B"}

TargetOf(p) ==
    IF p = "A" THEN [job |-> "j1", instance |-> "h1:80"]
               ELSE [job |-> "j2", instance |-> "h2"]

KeyOf(p) == JobsMapKey(TargetOf(p).job, TargetOf(p).instance)

\* The batch of the n-th scrape of target p with raw value x.
BatchOf(p, n, x) ==
    OCToMetrics(NoNode, NoResource,
        << Point(MkLabels(TargetOf(p).job, TargetOf(p).instance, "reqs_total"),
                 n, Num(x), 1) >>)

\* The entry of key in jm, as the holder of its handle sees it.
EntryOf(jm, key) == IF key \in DOMAIN jm THEN jm[key] ELSE <<>>

\* get followed by AdjustMetrics with nothing in between.
AdjustAlone(jm, p, md) ==
    LET jm1 == JobsMapGet(jm, TargetOf(p).job, TargetOf(p).instance)
        ar == AdjustMetrics(jm1[KeyOf(p)], md)
    IN [md |-> ar.md, jm |-> [jm1 EXCEPT ![KeyOf(p)] = ar.entry]]

InitConcurrent ==
    /\ tr = newTransaction(FALSE, <<>>)
    /\ ctxDone = FALSE
    /\ jobsMap = <<>>
    /\ cnt = [appends |-> 0, commits |-> 0, rollbacks |-> 0, msGet |-> 0,
              inits |-> 0, builds |-> 0, sinkCalls |-> 0,
              rollbackSeq |-> 0]
    /\ last = NoCall
    /\ call = IdleCall
    /\ fn = NoApplication
    /\ ecs = NoGet
    /\ sc = NoScraper
    /\ procs = [idSeq |-> 0,
                pc |-> [p \in Targets |-> "idle"],
                commits |-> [p \in Targets |-> 0],
                md |-> [p \in Targets |-> NoMetrics],
                out |-> [p \in Targets |-> <<>>],
                alone |-> [p \in Targets |-> <<>>],
                outAlone |-> [p \in Targets |-> <<>>],
                bothNew |-> FALSE]

\* Commit of p's transaction up to tr.jobsMap.get(tr.job, tr.instance).
CommitGet(p) ==
    /\ procs.pc[p] = "idle"
    /\ procs.commits[p] < MaxCommits
    /\ \E x \in 1..3 :
         procs' = [procs EXCEPT
                     !.pc[p] = "adjust",
                     !.commits[p] = @ + 1,
                     !.md[p] = BatchOf(p, procs.commits[p] + 1, x),
                     !.bothNew = @ \/ (/\ KeyOf(p) \notin DOMAIN jobsMap
                                       /\ \E q \in Targets \ {p} :
                                            /\ procs.pc[q] = "adjust"
                                            /\ procs.commits[q] = 1)]
    /\ jobsMap' = JobsMapGet(jobsMap, TargetOf(p).job, TargetOf(p).instance)
    /\ UNCHANGED <<tr, ctxDone, cnt, last, call, fn, sc, ecs>>

\* AdjustMetrics(&md) on the entry, and the rest of Commit.
CommitAdjust(p) ==
    /\ procs.pc[p] = "adjust"
    /\ LET ar == AdjustMetrics(EntryOf(jobsMap, KeyOf(p)), procs.md[p])
           ref == AdjustAlone(procs.alone[p], p, procs.md[p])
       IN /\ jobsMap' = (KeyOf(p) :> ar.entry) @@ jobsMap
          /\ procs' = [procs EXCEPT
                         !.pc[p] = "idle",
                         !.md[p] = NoMetrics,
                         !.out[p] = Append(@, ar.md.points),
                         !.alone[p] = ref.jm,
                         !.outAlone[p] = Append(@, ref.md.points)]
    /\ UNCHANGED <<tr, ctxDone, cnt, last, call, fn, sc, ecs>>

NextConcurrent == \E p \in Targets : CommitGet(p) \/ CommitAdjust(p)

SpecConcurrent == InitConcurrent /\ [][NextConcurrent]_vars

(***************************************************************************)
(* Vocabulary of the properties.                                           *)
(***************************************************************************)
AppendStep == cnt'.appends = cnt.appends + 1
CommitStep == cnt'.commits = cnt.commits + 1
RollbackStep == cnt'.rollbacks = cnt.rollbacks + 1

Has(events, op) == \E i \in 1..Len(events) : events[i].op = op
HasErr(events, op, err) ==
    \E i \in 1..Len(events) : events[i].op = op /\ events[i].err = err

\* The place of the first call of op in a call trace, 0 if it was not called.
Pos(events, op) ==
    IF Has(events, op)
    THEN CHOOSE i \in 1..Len(events) :
            /\ events[i].op = op
            /\ \A j \in 1..(i - 1) : events[j].op # op
    ELSE 0

SentPoints == IF last.sent = <<>> THEN <<>> ELSE last.sent[1].points

(***************************************************************************)
(* C1.  In start-time-metric mode, a Commit whose Build succeeded while    *)
(* the builder's start time is zero returns the missing-start-time error   *)
(* and does not call the sink.                                             *)
(***************************************************************************)
C1_MissingStartTimeFailsClosed ==
    ( /\ last.op = "Commit"
      /\ tr.useStartTimeMetric
      /\ HasErr(last.events, "Build", Nil)
      /\ tr.metricBuilder.startTime = Num(0) )
    => /\ last.err = errNoStartTimeMetrics
       /\ ~Has(last.events, "ConsumeMetrics")
       /\ last.sent = <<>>
       /\ ~Has(last.events, "OCToMetrics")

\* C1 witness: such a Commit happened on a batch that holds data points.
C1_Witness ==
    /\ last.op = "Commit"
    /\ tr.useStartTimeMetric
    /\ HasErr(last.events, "Build", Nil)
    /\ Len(tr.metricBuilder.points) > 0
    /\ tr.metricBuilder.startTime = Num(0)
    /\ last.err = errNoStartTimeMetrics

(***************************************************************************)
(* C2.  A Commit on a transaction that is still new returns success and    *)
(* calls neither Build, nor an adjuster, nor the sink; it changes nothing. *)
(***************************************************************************)
C2_CommitOnNewIsNoop ==
    [][ (CommitStep /\ tr.isNew)
        => /\ last'.err = Nil
           /\ last'.events = <<>>
           /\ last'.sent = <<>>
           /\ jobsMap' = jobsMap
           /\ cnt'.builds = cnt.builds
           /\ cnt'.sinkCalls = cnt.sinkCalls ]_vars

\* C2 witness: a Commit on a new transaction after Appends that all failed.
C2_Witness ==
    /\ last.op = "Commit"
    /\ tr.isNew
    /\ cnt.appends > 0
    /\ last.err = Nil

(***************************************************************************)
(* C3.  An Append on a cancelled context returns the aborted error and     *)
(* leaves every field of the transaction unchanged.                        *)
(***************************************************************************)
C3_CancelledAppendChangesNothing ==
    [][ (AppendStep /\ ctxDone)
        => /\ last'.err = errTransactionAborted
           /\ tr' = tr ]_vars

C5_NoDataIsSuccess ==
    (last.op = "Commit" /\ HasErr(last.events, "Build", errNoDataToBuild))
    => /\ HasErr(last.events, "EndMetricsOp", errNoDataToBuild)
       /\ ~Has(last.events, "ConsumeMetrics")
       /\ last.err = Nil

(***************************************************************************)
(* C5 as amended.  When Build fails on an initialized transaction, Commit  *)
(* reports zero points, does not call the sink and returns Build's         *)
(* no-data-to-build error.                                                 *)
(***************************************************************************)
C5_NoDataIsReturned ==
    (last.op = "Commit" /\ HasErr(last.events, "Build", errNoDataToBuild))
    => /\ \E i \in 1..Len(last.events) :
             last.events[i] = Ev("EndMetricsOp", 0, errNoDataToBuild)
       /\ CountOf(last.events, "EndMetricsOp") = 1
       /\ ~Has(last.events, "ConsumeMetrics")
       /\ last.sent = <<>>
       /\ last.err = errNoDataToBuild

\* C5 witness: an initialized transaction without data points was committed.
C5_Witness ==
    /\ last.op = "Commit"
    /\ ~tr.isNew
    /\ HasErr(last.events, "Build", errNoDataToBuild)

(***************************************************************************)
(* C6.  A Commit calls the sink at most once, and when the sink returns an *)
(* error Commit returns that very error.                                   *)
(***************************************************************************)
C6_SinkErrorPropagated ==
    last.op = "Commit"
    => /\ CountOf(last.events, "ConsumeMetrics") <= 1
       /\ \A i \in 1..Len(last.events) :
             (last.events[i].op = "ConsumeMetrics" /\ last.events[i].err # Nil)
             => /\ last.err = last.events[i].err
                /\ last.err = last.sinkRes

\* C6 witness: the sink failed in a Commit.
C6_Witness ==
    /\ last.op = "Commit"
    /\ HasErr(last.events, "ConsumeMetrics", "sink: permanent")
    /\ last.err = "sink: permanent"

(***************************************************************************)
(* C7.  As claimed: the MetadataService lookup and the creation of the     *)
(* builder happen once whatever the number of Appends (at most once, and   *)
(* once when an Append has succeeded), and the transition out of new       *)
(* happens on an Append that returns success.                              *)
(***************************************************************************)
C7_ResolutionExactlyOnce ==
    [][ AppendStep
        => /\ cnt'.msGet <= 1
           /\ cnt'.inits <= 1
           /\ last'.err = Nil => (cnt'.msGet = 1 /\ cnt'.inits = 1)
           /\ (tr.isNew /\ ~tr'.isNew) => last'.err = Nil ]_vars

(***************************************************************************)
(* C7 as amended.  Successful resolution (a lookup that succeeds, then the *)
(* creation of builder and resource) happens at most once, and has         *)
(* happened once an Append has returned success; an Append makes at most   *)
(* one lookup, and none once the transaction is initialized; the           *)
(* transition out of new happens at most once, in the Append whose         *)
(* resolution succeeds.                                                    *)
(***************************************************************************)
C7_ResolutionAtMostOnce ==
    [][ AppendStep
        => /\ cnt'.inits <= 1
           /\ last'.err = Nil => (cnt'.inits = 1 /\ ~tr'.isNew)
           /\ CountOf(last'.events, "ms.Get") <= 1
           /\ ~tr.isNew => (~Has(last'.events, "ms.Get") /\ ~tr'.isNew)
           /\ (tr.isNew /\ ~tr'.isNew)
                <=> (cnt'.inits = cnt.inits + 1 /\ HasErr(last'.events, "ms.Get", Nil))
           /\ (cnt'.inits = 1) <=> ~tr'.isNew ]_vars

\* C7 witness: a lookup failed, and the next Append initialized the transaction.
C7_Witness ==
    /\ last.op = "Append"
    /\ cnt.msGet = 2
    /\ cnt.inits = 1
    /\ ~tr.isNew

(***************************************************************************)
(* C8.  As claimed: across any sequence of calls Build is invoked at most  *)
(* once.                                                                   *)
(***************************************************************************)
C8_BuildAtMostOnce == cnt.builds <= 1

(***************************************************************************)
(* C8 as amended.  Build is invoked only by Commit, at most once per       *)
(* Commit call and never on a new transaction: the number of Build calls   *)
(* never exceeds the number of Commit calls.                               *)
(***************************************************************************)
C8_BuildAtMostOncePerCommit ==
    /\ cnt.builds <= cnt.commits
    /\ tr.isNew => cnt.builds = 0
    /\ last.op = "Commit" => CountOf(last.events, "Build") <= 1
    /\ last.op # "Commit" => ~Has(last.events, "Build")

\* C8 witness: two Commits of one initialized transaction, each calling Build.
C8_Witness ==
    /\ last.op = "Commit"
    /\ cnt.commits = 2
    /\ cnt.builds = 2

(***************************************************************************)
(* C9.  After a Rollback, no later Commit delivers to the sink a data      *)
(* point appended before that Rollback.                                    *)
(***************************************************************************)
C9_RollbackDiscardsPoints ==
    last.op = "Commit"
    => \A i \in 1..Len(SentPoints) : SentPoints[i].seq > cnt.rollbackSeq

(***************************************************************************)
(* C10.  As claimed: a Commit on an initialized transaction whose context  *)
(* is already cancelled returns the aborted error and calls neither Build  *)
(* nor the sink.                                                           *)
(***************************************************************************)
C10_CancelledCommitAborts ==
    (last.op = "Commit" /\ last.ctxDone /\ ~tr.isNew)
    => /\ last.err = errTransactionAborted
       /\ ~Has(last.events, "Build")
       /\ ~Has(last.events, "ConsumeMetrics")

(***************************************************************************)
(* C10 as amended.  Commit does not consult the context: on an initialized *)
(* transaction whose context is already cancelled it calls Build, never    *)
(* returns the aborted error, and calls the sink exactly when Build        *)
(* succeeded, the start time is not missing and the batch has points.      *)
(***************************************************************************)
C10_CancelledCommitProceeds ==
    (last.op = "Commit" /\ last.ctxDone /\ ~tr.isNew)
    => /\ CountOf(last.events, "Build") = 1
       /\ last.err # errTransactionAborted
       /\ Has(last.events, "ConsumeMetrics")
            <=> /\ HasErr(last.events, "Build", Nil)
                /\ ~(tr.useStartTimeMetric /\ tr.metricBuilder.startTime = Num(0))
                /\ Len(tr.metricBuilder.points) > 0

\* C10 witness: a Commit on a cancelled context delivered a batch.
C10_Witness ==
    /\ last.op = "Commit"
    /\ last.ctxDone
    /\ ~tr.isNew
    /\ last.sent # <<>>
    /\ last.err = Nil

(***************************************************************************)
(* C11.  A context cancellation that happens after Commit or Rollback was  *)
(* invoked does not alter the call: every invoked call returns, a Commit   *)
(* returns exactly what it returns when run without interruption from the  *)
(* state it was invoked in (success, or the error of Build, of the missing *)
(* start time or of the sink, never the aborted error), and a Rollback     *)
(* returns success.                                                        *)
(***************************************************************************)
CommitReturns == call.pc = "return" /\ call.op = "Commit" /\ call'.pc = "idle"
RollbackReturns == call.pc = "rollback" /\ call'.pc = "idle"

C11_CancellationDoesNotAlterCall ==
    /\ [][CommitReturns =>
            LET r == CommitRun(call.f.t, call.jm0, call.f.sinkRes)
            IN /\ last'.op = "Commit"
               /\ last'.err = r.err
               /\ last'.events = r.events
               /\ last'.sent = r.sent
               /\ jobsMap' = r.jobsMap
               /\ tr' = r.tr
               /\ last'.err \in {Nil, errNoDataToBuild, errNoStartTimeMetrics}
                                  \cup SinkErrors]_vars
    /\ [][RollbackReturns =>
            /\ last'.op = "Rollback"
            /\ last'.err = Nil
            /\ tr' = [call.f.t EXCEPT !.startTimeMs = -1]]_vars
    /\ (call.pc # "idle" ~> call.pc = "idle")

\* C11 witness: a Commit that was invoked on a live context, and whose
\* context was cancelled while it executed, is about to return success
\* after having delivered its batch.
C11_Witness ==
    /\ call.pc = "return"
    /\ call.op = "Commit"
    /\ ~call.ctxAtInvoke
    /\ ctxDone
    /\ call.f.sent # <<>>
    /\ call.f.err = Nil

(***************************************************************************)
(* C12.  A Commit applies at most one adjustment strategy: it calls        *)
(* adjustStartTimestamp only if useStartTimeMetric is true and the JobsMap *)
(* adjuster only if it is false, never both; and no step of the            *)
(* transaction changes useStartTimeMetric.                                 *)
(***************************************************************************)
C12_OneAdjustmentStrategy ==
    /\ [](last.op = "Commit" =>
            /\ Has(last.events, "adjustStartTimestamp") => tr.useStartTimeMetric
            /\ Has(last.events, "AdjustMetrics") => ~tr.useStartTimeMetric
            /\ ~(Has(last.events, "adjustStartTimestamp")
                   /\ Has(last.events, "AdjustMetrics")))
    /\ [][tr'.useStartTimeMetric = tr.useStartTimeMetric]_vars

\* C12 witness: a Commit in start-time-metric mode stamped the batch and
\* delivered it without calling the JobsMap adjuster.
C12_Witness ==
    /\ last.op = "Commit"
    /\ tr.useStartTimeMetric
    /\ Has(last.events, "adjustStartTimestamp")
    /\ ~Has(last.events, "AdjustMetrics")
    /\ last.sent # <<>>

(***************************************************************************)
(* C13.  As claimed: on a transaction that is still new, an Append whose   *)
(* effective label set has an empty or absent job or instance label fails  *)
(* with the missing-job-instance error, without calling MetadataService    *)
(* and without leaving the new state.                                      *)
(***************************************************************************)
EffectiveLabels(ls) == IF Len(tr.externalLabels) > 0 THEN ls \o tr.externalLabels ELSE ls

NoJobOrInstance(ls) ==
    \/ Get(EffectiveLabels(ls), JobLabel) = ""
    \/ Get(EffectiveLabels(ls), InstanceLabel) = ""

C13_MissingIdentityFails ==
    [][(AppendStep /\ tr.isNew /\ NoJobOrInstance(last'.ls))
         => /\ last'.err = errNoJobInstance
            /\ ~Has(last'.events, "ms.Get")
            /\ tr'.isNew]_vars

(***************************************************************************)
(* C13 as amended.  On a transaction that is still new, an Append whose    *)
(* effective label set has an empty or absent job or instance label never  *)
(* calls MetadataService and never leaves the new state; it fails with the *)
(* missing-job-instance error if the context is live, and with the aborted *)
(* error if the context is cancelled.                                      *)
(***************************************************************************)
C13_MissingIdentityFailsUnlessAborted ==
    [][(AppendStep /\ tr.isNew /\ NoJobOrInstance(last'.ls))
         => /\ last'.err = IF ctxDone THEN errTransactionAborted ELSE errNoJobInstance
            /\ ~Has(last'.events, "ms.Get")
            /\ tr'.isNew
            /\ tr'.metricBuilder = NoBuilder]_vars

\* C13 witness: on a live context, an Append with an instance label that is
\* present but empty failed with the missing-job-instance error.
C13_Witness ==
    /\ last.op = "Append"
    /\ ~last.ctxDone
    /\ tr.isNew
    /\ \E i \in 1..Len(last.ls) : last.ls[i] = L(InstanceLabel, "")
    /\ Get(last.ls, JobLabel) = "j1"
    /\ last.err = errNoJobInstance

(***************************************************************************)
(* C14.  An Append whose MetadataService lookup fails returns exactly the  *)
(* lookup's error, makes the lookup once, creates no builder, node or      *)
(* resource, and leaves the transaction new.                               *)
(***************************************************************************)
C14_LookupFailurePropagated ==
    [][(AppendStep /\ \E e \in MsResults \ {Nil} : HasErr(last'.events, "ms.Get", e))
         => /\ HasErr(last'.events, "ms.Get", last'.err)
            /\ last'.err \in MsResults \ {Nil}
            /\ CountOf(last'.events, "ms.Get") = 1
            /\ ~Has(last'.events, "newMetricBuilder")
            /\ tr'.isNew
            /\ tr'.metricBuilder = NoBuilder
            /\ tr'.node = NoNode
            /\ tr'.resource = NoResource
            /\ tr'.job = "" /\ tr'.instance = ""]_vars

\* C14 witness: an Append failed with the error of the lookup.
C14_Witness ==
    /\ last.op = "Append"
    /\ last.err = errMetadata
    /\ HasErr(last.events, "ms.Get", errMetadata)
    /\ tr.isNew

(***************************************************************************)
(* C15.  adjustStartTimestamp sets the start timestamp on every timeseries *)
(* of every metric whose type is not gauge-like, and leaves unchanged the  *)
(* timeseries of every gauge-like metric: a gauge of either value type or  *)
(* a gauge distribution.                                                   *)
(***************************************************************************)
GaugeLikeAsClaimed(type) == type \in {"GAUGE_INT64", "GAUGE_DOUBLE", "GAUGE_DISTRIBUTION"}

C15_GaugeLikeNotStamped ==
    fn.op = "adjustStartTimestamp"
    => /\ Len(fn.out) = Len(fn.in)
       /\ \A i \in 1..Len(fn.in) :
            IF GaugeLikeAsClaimed(fn.in[i].type)
            THEN fn.out[i] = fn.in[i]
            ELSE fn.out[i] = [fn.in[i] EXCEPT
                                !.startTs = [set |-> TRUE, secs |-> fn.startTime.n,
                                             nanos |-> 0]]

(***************************************************************************)
(* C16.  On gauge and sum data points fixStaleMetrics sets the stale flag  *)
(* and resets the value to 0 exactly where the value is the stale NaN; it  *)
(* leaves every other gauge or sum point, one with an ordinary NaN         *)
(* included, as it was, and it keeps the number and order of the points.   *)
(***************************************************************************)
C16_StaleNaNFlaggedAndZeroed ==
    fn.op = "fixStaleMetrics"
    => /\ Len(fn.out) = Len(fn.in)
       /\ \A i \in 1..Len(fn.in) :
            DataType(fn.in[i].type) \in {"Gauge", "Sum"}
            => IF fn.in[i].v = StaleNaN
               THEN fn.out[i] = [fn.in[i] EXCEPT !.stale = TRUE, !.v = Num(0)]
               ELSE fn.out[i] = fn.in[i]

\* C16 witness: a batch of a gauge holding an ordinary NaN and a sum holding
\* the stale NaN went through fixStaleMetrics; only the sum was flagged.
C16_Witness ==
    /\ fn.op = "fixStaleMetrics"
    /\ Len(fn.in) = 2
    /\ fn.in[1].type = "GAUGE_DOUBLE" /\ fn.in[1].v = OrdinaryNaN
    /\ fn.in[2].type = "CUMULATIVE_DOUBLE" /\ fn.in[2].v = StaleNaN
    /\ ~fn.out[1].stale /\ fn.out[1].v = OrdinaryNaN
    /\ fn.out[2].stale /\ fn.out[2].v = Num(0)

(***************************************************************************)
(* C17.  The resource identity of a transaction is derived from the sample *)
(* that initializes it and never changes afterwards: the initializing      *)
(* Append binds job, instance, port and scheme from its labels, no later   *)
(* step changes the bound job, instance, node or resource, whatever labels *)
(* a later Append carries, and every batch handed to the sink carries that *)
(* node and resource.                                                      *)
(***************************************************************************)
C17_IdentityBoundOnce ==
    /\ [][(AppendStep /\ tr.isNew /\ ~tr'.isNew)
            => LET ls == EffectiveLabels(last'.ls)
               IN /\ tr'.resource.job = Get(ls, JobLabel)
                  /\ tr'.resource.instance = Get(ls, InstanceLabel)
                  /\ tr'.resource.port = SplitHostPort(Get(ls, InstanceLabel)).port
                  /\ tr'.resource.scheme = SchemeOf(Get(ls, JobLabel), Get(ls, InstanceLabel))
                  /\ tr'.node.name = Get(ls, JobLabel)]_vars
    /\ [][~tr.isNew
            => /\ tr'.job = tr.job
               /\ tr'.instance = tr.instance
               /\ tr'.node = tr.node
               /\ tr'.resource = tr.resource]_vars
    /\ [](last.sent # <<>>
            => /\ last.sent[1].resource = tr.resource
               /\ last.sent[1].node = tr.node)

\* C17 witness: a transaction bound to job j1 accepted an Append whose
\* labels name job j2, and is still bound to j1.
C17_Witness ==
    /\ last.op = "Append"
    /\ last.err = Nil
    /\ Get(last.ls, JobLabel) = "j2"
    /\ ~tr.isNew
    /\ tr.resource.job = "j1"
    /\ tr.resource.instance = "h1:80"
    /\ Len(tr.metricBuilder.points) = 2

(***************************************************************************)
(* C18.  As claimed: after any Commit has returned, on every path, the     *)
(* start-time tracking is reset: startTimeMs = -1.                         *)
(***************************************************************************)
C18_CommitAlwaysResets == last.op = "Commit" => tr.startTimeMs = -1

(***************************************************************************)
(* C18 as amended.  A Commit on an initialized transaction resets the      *)
(* start-time tracking (startTimeMs = -1) on every path: Build failure,    *)
(* missing start time, sink success, sink failure or nothing to send.  A   *)
(* Commit on a transaction that was never initialized returns before the   *)
(* reset and leaves startTimeMs as it was.                                 *)
(***************************************************************************)
C18_InitializedCommitResets ==
    [][CommitStep
         => /\ ~tr.isNew => tr'.startTimeMs = -1
            /\ tr.isNew => tr'.startTimeMs = tr.startTimeMs]_vars

\* C18 witness: a Commit that failed in Build has reset the tracking that
\* the Append before it had set.
C18_Witness ==
    /\ last.op = "Commit"
    /\ last.err = errNoDataToBuild
    /\ cnt.commits = 1
    /\ cnt.rollbacks = 0
    /\ cnt.appends > 0
    /\ tr.startTimeMs = -1

(***************************************************************************)
(* C19.  Within one batch, the Appends made since construction or since    *)
(* the last reset, the tracked start time is the minimum of the timestamps *)
(* appended so far: the first Append of a batch sets it to its timestamp,  *)
(* and each later Append lowers it to its timestamp if that is earlier.    *)
(***************************************************************************)
C19_StartTimeIsMinimum ==
    [][AppendStep
         => tr'.startTimeMs = IF tr.startTimeMs < 0 \/ last'.t < tr.startTimeMs
                              THEN last'.t
                              ELSE tr.startTimeMs]_vars

(***************************************************************************)
(* C20.  As claimed: Commit calls the sink only with a batch that has at   *)
(* least one data point, and when Build succeeded with a batch without     *)
(* data points Commit returns success without calling the sink.            *)
(***************************************************************************)
BuiltEmpty ==
    /\ last.op = "Commit"
    /\ HasErr(last.events, "Build", Nil)
    /\ Len(tr.metricBuilder.points) = 0

C22_IdsDistinctAndIncreasing ==
    /\ \A i, j \in 1..Len(procs.taken) :
         i < j => procs.taken[i] < procs.taken[j]
    /\ \A i, j \in 1..Len(procs.returned) :
         i # j => procs.returned[i] # procs.returned[j]
    /\ \A l, m \in Loops :
         (l # m /\ procs.pc[l] = "construct" /\ procs.pc[m] = "construct")
         => procs.id[l] # procs.id[m]

\* C22 witness: three loops were inside newTransaction at once, and the
\* calls returned in another order than they took their ids.
C22_Witness ==
    /\ Len(procs.returned) = 3
    /\ procs.returned[1] > procs.returned[2]
    /\ procs.returned[2] > procs.returned[3]
    /\ Len(procs.taken) = MaxTransactions
    /\ \E l \in Loops : procs.pc[l] = "construct"

(***************************************************************************)
(* C23.  With external labels configured, an Append on a live context      *)
(* hands the builder the labels of the sample followed by all external     *)
(* labels.  Job and instance are resolved with the label of the sample     *)
(* taking precedence over an external label of the same name, so that a    *)
(* sample without a job or instance label reaches the MetadataService      *)
(* lookup, and initializes the transaction if the lookup succeeds, when    *)
(* the external labels supply what it lacks.                               *)
(***************************************************************************)
HasLabel(ls, n) == \E i \in 1..Len(ls) : ls[i].name = n

\* The value of label n: the sample's if it carries one, else the external.
Overlaid(ls, n) == IF HasLabel(ls, n) THEN Get(ls, n) ELSE Get(tr.externalLabels, n)

C23_ExternalLabelsOverlay ==
    [][(AppendStep /\ ~ctxDone /\ Len(tr.externalLabels) > 0)
         => LET ls == last'.ls
                job == Overlaid(ls, JobLabel)
                instance == Overlaid(ls, InstanceLabel)
            IN /\ \A i \in 1..Len(last'.events) :
                    last'.events[i].op = "AddDataPoint"
                    => last'.events[i].n = Len(ls) + Len(tr.externalLabels)
               /\ (tr.isNew /\ job # "" /\ instance # "")
                    => /\ Has(last'.events, "ms.Get")
                       /\ last'.err # errNoJobInstance
                       /\ HasErr(last'.events, "ms.Get", Nil)
                            => /\ ~tr'.isNew
                               /\ tr'.resource.job = job
                               /\ tr'.resource.instance = instance
                               /\ Has(last'.events, "AddDataPoint")
               /\ (tr.isNew /\ (job = "" \/ instance = ""))
                    => last'.err = errNoJobInstance /\ tr'.isNew]_vars

\* C23 witness: a sample that carries an instance but no job initialized a
\* transaction whose external labels supply both: the job is the external
\* one, the instance the sample's.
C23_Witness ==
    /\ last.op = "Append"
    /\ last.err = Nil
    /\ ~HasLabel(last.ls, JobLabel)
    /\ Get(last.ls, InstanceLabel) = "h1:80"
    /\ Get(tr.externalLabels, InstanceLabel) = "h9"
    /\ ~tr.isNew
    /\ tr.resource.job = "je"
    /\ tr.resource.instance = "h1:80"
    /\ cnt.appends = 1

(***************************************************************************)
(* The Elasticsearch scraper as its test drives it: a scraper with a mock  *)
(* client whose NodeStats and ClusterHealth return a payload or an error,  *)
(* and one scrape, which collects the node metrics, then the cluster       *)
(* metrics, adds every failure to a scrapererror.ScrapeErrors and returns  *)
(* the metrics with the combined error.                                    *)
(***************************************************************************)
MaxNodes == 2

err404 == "expected status 200 but got 404"
err500 == "expected status 200 but got 500"
errUnknownClusterStatus == "health status from Elasticsearch is unknown"

ClientErrors == {err404, err500}
KnownStatuses == {"green", "yellow", "red"}

\* What the mock client is set to return.
NodeStatsReturns ==
    {[err |-> Nil, nodes |-> n] : n \in 0..MaxNodes}
      \cup {[err |-> e, nodes |-> 0] : e \in ClientErrors}

ClusterHealthReturns ==
    {[err |-> Nil, status |-> st] : st \in KnownStatuses \cup {"pink"}}
      \cup {[err |-> e, status |-> ""] : e \in ClientErrors}

\* ScrapeErrors.AddPartial(n, err)
AddPartial(errs, e) == Append(errs, e)

\* Mutant of Combine: only the first error is kept.
Combine_first(errs) ==
    IF errs = <<>> THEN NoScrapeError ELSE [partial |-> TRUE, msgs |-> <<errs[1]>>]

\* ScrapeErrors.Combine(): nil without errors, else a partial-scrape error
\* whose message is the errors' messages joined by "; ", kept here as the
\* sequence of the parts.
Combine(errs) ==
    IF errs = <<>> THEN NoScrapeError ELSE [partial |-> TRUE, msgs |-> errs]

\* err.Error() equals e; err.Error() contains e.
MessageEquals(err, e) == err.msgs = <<e>>
MessageContains(err, e) == \E i \in 1..Len(err.msgs) : err.msgs[i] = e
IsPartialScrapeError(err) == err # NoScrapeError /\ err.partial

\* newElasticSearchScraper, start, and sc.client = &mockClient
NewScraper ==
    /\ sc.pc = "idle"
    /\ \E skip \in BOOLEAN, ns \in NodeStatsReturns, ch \in ClusterHealthReturns :
         sc' = [NoScraper EXCEPT !.pc = "nodes", !.skipClusterMetrics = skip,
                                 !.nodeStats = ns, !.clusterHealth = ch]
    /\ UNCHANGED <<tr, ctxDone, jobsMap, cnt, last, call, fn, procs, ecs>>

\* Mutant of scrapeNodeMetricsRun: the error of NodeStats is dropped.
scrapeNodeMetricsRun_dropErr(s) ==
    IF s.nodeStats.err # Nil
    THEN [s EXCEPT !.called = @ \cup {"NodeStats"}]
    ELSE [s EXCEPT !.called = @ \cup {"NodeStats"}, !.nodePoints = s.nodeStats.nodes]

\* scrape, first part: the node metrics.
scrapeNodeMetricsRun(s) ==
    IF s.nodeStats.err # Nil
    THEN [s EXCEPT !.called = @ \cup {"NodeStats"},
                   !.errs = AddPartial(@, s.nodeStats.err)]
    ELSE [s EXCEPT !.called = @ \cup {"NodeStats"}, !.nodePoints = s.nodeStats.nodes]

\* scrape, second part: the cluster metrics, unless the configuration skips
\* them; a cluster status that is none of green, yellow and red is an error.
scrapeClusterMetricsRun(s) ==
    IF s.skipClusterMetrics
    THEN s
    ELSE IF s.clusterHealth.err # Nil
    THEN [s EXCEPT !.called = @ \cup {"ClusterHealth"},
                   !.errs = AddPartial(@, s.clusterHealth.err)]
    ELSE IF s.clusterHealth.status \notin KnownStatuses
    THEN [s EXCEPT !.called = @ \cup {"ClusterHealth"}, !.clusterPoints = 1,
                   !.errs = AddPartial(@, errUnknownClusterStatus)]
    ELSE [s EXCEPT !.called = @ \cup {"ClusterHealth"}, !.clusterPoints = 2]

\* return rms, errs.Combine()
scrapeReturnRun(s) ==
    [s EXCEPT !.ret = [returned |-> TRUE, nodePoints |-> s.nodePoints,
                       clusterPoints |-> s.clusterPoints, err |-> Combine(s.errs)]]

scrapeNodeMetrics ==
    /\ sc.pc = "nodes"
    /\ sc' = [scrapeNodeMetricsRun(sc) EXCEPT !.pc = "cluster"]
    /\ UNCHANGED <<tr, ctxDone, jobsMap, cnt, last, call, fn, procs, ecs>>

scrapeClusterMetrics ==
    /\ sc.pc = "cluster"
    /\ sc' = [scrapeClusterMetricsRun(sc) EXCEPT !.pc = "return"]
    /\ UNCHANGED <<tr, ctxDone, jobsMap, cnt, last, call, fn, procs, ecs>>

scrapeReturn ==
    /\ sc.pc = "return"
    /\ sc' = [scrapeReturnRun(sc) EXCEPT !.pc = "idle"]
    /\ UNCHANGED <<tr, ctxDone, jobsMap, cnt, last, call, fn, procs, ecs>>

NextScraper == NewScraper \/ scrapeNodeMetrics \/ scrapeClusterMetrics \/ scrapeReturn

SpecScraper == Init /\ [][NextScraper]_vars

(***************************************************************************)
(* The ECS HTTP client: Get(path) builds the request, sends it, defers the *)
(* close of the response body, reads the body, tests the status, and       *)
(* returns; the deferred close runs once the result is set.                *)
(***************************************************************************)
errBadURL == "parse: invalid control character in URL"
errDial == "dial tcp: connection refused"
errUnexpectedEOF == "unexpected EOF"
errClose == "close: connection reset"

StatusCodes == {200, 204, 404}

\* resp.Status
StatusOf(code) ==
    CASE code = 200 -> "200 OK"
      [] code = 204 -> "204 No Content"
      [] code = 404 -> "404 Not Found"
      [] OTHER -> ""

\* What http.NewRequest makes of the base URL and the path.
BuildReqOutcomes(path) == IF path = "/bad\n" THEN <<errBadURL>> ELSE NoError

Paths == {"/task", "/bad\n"}

\* What the server and the connection do to one request.
DoOutcomes ==
    {[err |-> <<errDial>>, code |-> 0, data |-> "", readErr |-> NoError,
      closeErr |-> NoError]}
      \cup {[err |-> NoError, code |-> c, data |-> d, readErr |-> r, closeErr |-> ce] :
              c \in StatusCodes, d \in {"", "{}"},
              r \in {NoError, <<errUnexpectedEOF>>}, ce \in {NoError, <<errClose>>}}

\* Mutant of StatusOK: every 2xx status is accepted.
StatusOK_any2xx(code) == code \in 200..299

\* resp.StatusCode == http.StatusOK
StatusOK(code) == code = 200

\* Get is called.
GetInvoke ==
    /\ ecs.pc = "idle"
    /\ \E path \in Paths, d \in DoOutcomes :
         ecs' = [NoGet EXCEPT !.pc = "buildReq", !.path = path, !.do = d]
    /\ UNCHANGED <<tr, ctxDone, jobsMap, cnt, last, call, fn, procs, sc>>

\* Sets the result of Get; the deferred close, if one was set up, runs next.
SetResult(g, body, err) ==
    [g EXCEPT !.body = body, !.err = err,
              !.pc = IF g.hasResp THEN "deferred" ELSE "return"]

\* req, err := c.buildReq(path); if err != nil { return nil, err }
buildReqRun(g) ==
    IF BuildReqOutcomes(g.path) # NoError
    THEN SetResult(g, NilBody, BuildReqOutcomes(g.path))
    ELSE [g EXCEPT !.pc = "do"]

\* resp, err := c.httpClient.Do(req); if err != nil { return nil, err };
\* defer func() { ... }()
doRun(g) ==
    IF g.do.err # NoError
    THEN SetResult(g, NilBody, g.do.err)
    ELSE [g EXCEPT !.hasResp = TRUE, !.pc = "read"]

\* body, err := ioutil.ReadAll(resp.Body); if err != nil { return nil, fmt.Errorf(...) }
readRun(g) ==
    IF g.do.readErr # NoError
    THEN SetResult(g, NilBody, <<"failed to read response body">> \o g.do.readErr)
    ELSE [g EXCEPT !.read = [isNil |-> FALSE, data |-> g.do.data], !.pc = "status"]

\* if resp.StatusCode != http.StatusOK { return nil, fmt.Errorf(...) }; return body, nil
statusRun(g) ==
    IF ~StatusOK(g.do.code)
    THEN SetResult(g, NilBody, <<"request GET failed", StatusOf(g.do.code)>>)
    ELSE SetResult(g, g.read, NoError)

\* Mutant of deferredCloseRun: an error of Close replaces the result.
deferredCloseRun_propagate(g) ==
    IF g.do.closeErr # NoError
    THEN [g EXCEPT !.closes = @ + 1, !.pc = "return",
                   !.body = NilBody, !.err = g.do.closeErr]
    ELSE [g EXCEPT !.closes = @ + 1, !.pc = "return"]

\* closeErr := resp.Body.Close(); if closeErr != nil { c.logger.Warn(...) }
deferredCloseRun(g) ==
    IF g.do.closeErr # NoError
    THEN [g EXCEPT !.closes = @ + 1, !.pc = "return",
                   !.log = Append(@, <<"Failed to close response body">> \o g.do.closeErr)]
    ELSE [g EXCEPT !.closes = @ + 1, !.pc = "return"]

GetBuildReq ==
    /\ ecs.pc = "buildReq"
    /\ ecs' = buildReqRun(ecs)
    /\ UNCHANGED <<tr, ctxDone, jobsMap, cnt, last, call, fn, procs, sc>>

GetDo ==
    /\ ecs.pc = "do"
    /\ ecs' = doRun(ecs)
    /\ UNCHANGED <<tr, ctxDone, jobsMap, cnt, last, call, fn, procs, sc>>

GetReadAll ==
    /\ ecs.pc = "read"
    /\ ecs' = readRun(ecs)
    /\ UNCHANGED <<tr, ctxDone, jobsMap, cnt, last, call, fn, procs, sc>>

GetStatus ==
    /\ ecs.pc = "status"
    /\ ecs' = statusRun(ecs)
    /\ UNCHANGED <<tr, ctxDone, jobsMap, cnt, last, call, fn, procs, sc>>

GetDeferredClose ==
    /\ ecs.pc = "deferred"
    /\ ecs' = deferredCloseRun(ecs)
    /\ UNCHANGED <<tr, ctxDone, jobsMap, cnt, last, call, fn, procs, sc>>

\* Get returns to its caller.
GetReturn ==
    /\ ecs.pc = "return"
    /\ ecs' = [ecs EXCEPT !.pc = "idle", !.returned = TRUE]
    /\ UNCHANGED <<tr, ctxDone, jobsMap, cnt, last, call, fn, procs, sc>>

NextGet ==
    GetInvoke \/ GetBuildReq \/ GetDo \/ GetReadAll \/ GetStatus \/ GetDeferredClose
      \/ GetReturn

SpecGet == Init /\ [][NextGet]_vars

(***************************************************************************)
(* C24.  Label caching is disabled: Append and AppendExemplar return the   *)
(* series reference 0 whatever their outcome, AddFast fails with the       *)
(* not-found error, and AddFast and AppendExemplar change nothing of the   *)
(* transaction.                                                            *)
(***************************************************************************)
CachingCall == last'.op \in {"AppendExemplar", "AddFast"} /\ last' # last

C24_NoLabelCaching ==
    /\ [](last.op \in {"Append", "AppendExemplar"} => last.ref = 0)
    /\ [](last.op = "AppendExemplar" => last.err = Nil)
    /\ [](last.op = "AddFast" => last.err = ErrNotFound)
    /\ [][CachingCall
            => /\ tr' = tr
               /\ jobsMap' = jobsMap
               /\ cnt' = cnt
               /\ ctxDone' = ctxDone]_vars

\* C24 witness: AddFast failed with the not-found error on an initialized
\* transaction that holds a data point, right after an Append had failed
\* in the builder.
C24_Witness ==
    /\ last.op = "AddFast"
    /\ last.err = ErrNotFound
    /\ ~tr.isNew
    /\ Len(tr.metricBuilder.points) = 1
    /\ cnt.appends = 2

(***************************************************************************)
(* C25.  In JobsMap mode the values of one monotonic series handed to the  *)
(* sink by successive Commits never decrease, whatever the raw values.     *)
(* This does not hold: a raw value below the previous one is handed on as  *)
(* it is.  What holds is that the values never decrease within one epoch:  *)
(* a point whose value is below the previous one is handed on unstamped    *)
(* and opens an epoch, and every other point after the first carries the   *)
(* time of the point that opened its epoch as its start timestamp.         *)
(***************************************************************************)
Forwarded == fn.out

Decreases(i) == Forwarded[i + 1].v.n < Forwarded[i].v.n

\* The point that opened the epoch of the i-th forwarded point.
EpochOpener(i) ==
    CHOOSE k \in 1..i :
        /\ ~Forwarded[k].startTs.set
        /\ \A m \in (k + 1)..i : Forwarded[m].startTs.set

FailedCalls ==
    {c \in sc.called :
        \/ c = "NodeStats" /\ sc.nodeStats.err # Nil
        \/ c = "ClusterHealth" /\ sc.clusterHealth.err # Nil}

\* Both calls were made, and the payload of the one that succeeded is one
\* the scraper accepts.
BothCalledOneFailed ==
    /\ sc.ret.returned
    /\ sc.called = {"NodeStats", "ClusterHealth"}
    /\ Cardinality(FailedCalls) = 1
    /\ sc.clusterHealth.err = Nil => sc.clusterHealth.status \in KnownStatuses

ScrapeDataPointCount == sc.ret.nodePoints + sc.ret.clusterPoints

BuilderKept ==
    /\ tr'.metricBuilder.created
    /\ tr'.metricBuilder.useStartTimeMetric = tr.metricBuilder.useStartTimeMetric
    /\ tr'.metricBuilder.intervalStartTimeMs = tr.metricBuilder.intervalStartTimeMs
    /\ Len(tr'.metricBuilder.points) >= Len(tr.metricBuilder.points)
    /\ SubSeq(tr'.metricBuilder.points, 1, Len(tr.metricBuilder.points))
          = tr.metricBuilder.points
    /\ cnt'.inits = cnt.inits

C29_InitializationIrreversible ==
    [][~tr.isNew => (~tr'.isNew /\ BuilderKept)]_vars

\* C29 witness: an initialized transaction has been appended to twice,
\* rolled back and committed twice, the last call being an AppendExemplar,
\* and still holds the builder with both data points.
C29_Witness ==
    /\ ~tr.isNew
    /\ cnt.inits = 1
    /\ cnt.appends = 2
    /\ cnt.rollbacks = 1
    /\ cnt.commits = 2
    /\ last.op = "AppendExemplar"
    /\ Len(tr.metricBuilder.points) = 2

(***************************************************************************)
(* C30.  An Append on a cancelled context neither initializes the          *)
(* transaction nor applies the sample: it makes no MetadataService lookup, *)
(* creates no builder, leaves isNew as it was and hands nothing to the     *)
(* builder.                                                                *)
(***************************************************************************)
C30_CancelledAppendDoesNotInitialize ==
    [][(AppendStep /\ ctxDone)
         => /\ ~Has(last'.events, "ms.Get")
            /\ ~Has(last'.events, "newMetricBuilder")
            /\ ~Has(last'.events, "AddDataPoint")
            /\ cnt'.msGet = cnt.msGet
            /\ cnt'.inits = cnt.inits
            /\ tr'.isNew = tr.isNew
            /\ tr'.metricBuilder = tr.metricBuilder]_vars

\* C30 witness: the last call was an Append on a cancelled context of a
\* transaction that is still new and has no builder, after an earlier
\* Append had failed in the MetadataService lookup.
C30_Witness ==
    /\ last.op = "Append"
    /\ last.ctxDone
    /\ last.err = errTransactionAborted
    /\ tr.isNew
    /\ ~tr.metricBuilder.created
    /\ cnt.appends = 2
    /\ cnt.msGet = 1

(***************************************************************************)
(* C31.  An Append whose initialization fails, for a missing job or        *)
(* instance or for a failed metadata lookup, hands the sample to no        *)
(* builder and leaves the transaction new; the next Append on a live       *)
(* context attempts the initialization again, and a Commit of the          *)
(* transaction while it is new succeeds without doing anything.            *)
(***************************************************************************)
InitFailed == AppendStep /\ last'.err \in {errNoJobInstance, errMetadata}

InitAttempted ==
    \/ last'.err = errNoJobInstance
    \/ Has(last'.events, "ms.Get")

C31_FailedInitIsRetried ==
    /\ [][InitFailed
            => /\ tr'.isNew
               /\ ~tr'.metricBuilder.created
               /\ ~Has(last'.events, "AddDataPoint")
               /\ ~Has(last'.events, "newMetricBuilder")]_vars
    /\ [][(AppendStep /\ tr.isNew /\ ~ctxDone) => InitAttempted]_vars
    /\ [][(CommitStep /\ tr.isNew)
            => /\ last'.err = Nil
               /\ last'.events = <<>>
               /\ last'.sent = <<>>
               /\ tr' = tr
               /\ jobsMap' = jobsMap]_vars

\* C31 witness: the first Append failed in the metadata lookup, a Commit
\* then returned without a Build, and the second Append looked up again
\* and initialized the transaction.
C31_Witness ==
    /\ last.op = "Append"
    /\ last.err = Nil
    /\ ~tr.isNew
    /\ cnt.appends = 2
    /\ cnt.msGet = 2
    /\ cnt.inits = 1
    /\ cnt.commits = 1
    /\ cnt.builds = 0
    /\ Len(tr.metricBuilder.points) = 1

(***************************************************************************)
(* C32.  The sink is reached only through Commit: no Append,               *)
(* AppendExemplar, AddFast or Rollback calls ConsumeMetrics, and a Commit  *)
(* calls it at most once.                                                  *)
(***************************************************************************)
SinkCallsOfStep == CountOf(last'.events, "ConsumeMetrics")

C32_SinkOnlyThroughCommit ==
    /\ [](last.op # "Commit"
            => last.sent = <<>> /\ ~Has(last.events, "ConsumeMetrics"))
    /\ [][~CommitStep => cnt'.sinkCalls = cnt.sinkCalls]_vars
    /\ [][CommitStep
            => /\ SinkCallsOfStep <= 1
               /\ cnt'.sinkCalls = cnt.sinkCalls + SinkCallsOfStep
               /\ Len(last'.sent) = SinkCallsOfStep]_vars

\* C32 witness: two Commits have called the sink once each, and an AddFast
\* made afterwards has called nothing.
C32_Witness ==
    /\ last.op = "AddFast"
    /\ cnt.commits = 2
    /\ cnt.sinkCalls = 2
    /\ cnt.appends = 2
    /\ Len(tr.metricBuilder.points) = 2

(***************************************************************************)
(* C33.  Every Commit of an initialized transaction calls StartMetricsOp   *)
(* once, first, and EndMetricsOp once, last, on every return path.  On the *)
(* Build-failure and the missing-start-time path EndMetricsOp reports 0    *)
(* points and that error; on the normal path it comes after the sink call  *)
(* has returned and reports the number of data points of the batch and the *)
(* error of the sink.                                                      *)
(***************************************************************************)
\* The EndMetricsOp call of a call trace: its last call.
EndOf(events) == events[Len(events)]

\* The number of data points of the batch Commit c handed to the sink.
BatchPointsOf(c) == IF c.sent = <<>> THEN 0 ELSE DataPointCount(c.sent[1])

MetricsOpPaired(c) ==
    /\ Len(c.events) >= 2
    /\ c.events[1].op = "StartMetricsOp"
    /\ CountOf(c.events, "StartMetricsOp") = 1
    /\ EndOf(c.events).op = "EndMetricsOp"
    /\ CountOf(c.events, "EndMetricsOp") = 1
    /\ EndOf(c.events).err = c.err

EndReportOf(c, missingStartTime) ==
    IF HasErr(c.events, "Build", errNoDataToBuild)
    THEN EndOf(c.events) = Ev("EndMetricsOp", 0, errNoDataToBuild)
    ELSE IF missingStartTime
    THEN EndOf(c.events) = Ev("EndMetricsOp", 0, errNoStartTimeMetrics)
    ELSE IF Has(c.events, "ConsumeMetrics")
    THEN /\ Pos(c.events, "ConsumeMetrics") = Len(c.events) - 1
         /\ BatchPointsOf(c) > 0
         /\ EndOf(c.events) = Ev("EndMetricsOp", BatchPointsOf(c), c.sinkRes)
    ELSE EndOf(c.events) = Ev("EndMetricsOp", 0, Nil)

C33_MetricsOpPairedOnEveryPath ==
    [][(CommitStep /\ ~tr.isNew)
         => /\ MetricsOpPaired(last')
            /\ EndReportOf(last',
                   tr.useStartTimeMetric /\ StartTimeMissing(tr.metricBuilder))]_vars

\* C33 witness: a Commit handed two data points to the sink, the sink
\* failed, and EndMetricsOp then reported two points and the sink's error.
C33_Witness ==
    /\ last.op = "Commit"
    /\ last.sinkRes # Nil
    /\ Has(last.events, "ConsumeMetrics")
    /\ EndOf(last.events) = Ev("EndMetricsOp", 2, last.sinkRes)
    /\ last.err = last.sinkRes

(***************************************************************************)
(* C34.  In JobsMap mode every Commit of an initialized transaction whose  *)
(* Build succeeds calls the adjuster once, on the JobsMap entry of the job *)
(* and instance bound at initialization, also when Build returned no       *)
(* metric; then nothing was converted, no staleness fix was made, the      *)
(* batch the adjuster gets is the unconverted empty one, and the sink is   *)
(* not called.                                                             *)
(***************************************************************************)
BuildSucceeds == Build(tr.metricBuilder).err = Nil
BuildsNoMetric == Len(Build(tr.metricBuilder).metrics) = 0

\* The batch Commit holds when it reaches the adjuster.
BatchBeforeAdjust == StepConvert(StepBuild(NewFrame(tr, jobsMap, Nil))).md

BoundKey == JobsMapKey(tr.job, tr.instance)

C34_AdjusterCalledOnce ==
    [][(CommitStep /\ ~tr.isNew /\ ~tr.useStartTimeMetric /\ BuildSucceeds)
         => /\ CountOf(last'.events, "AdjustMetrics") = 1
            /\ BoundKey = JobsMapKey("j1", "h1:80")
            /\ DOMAIN jobsMap' = DOMAIN jobsMap \cup {BoundKey}
            /\ \A k \in DOMAIN jobsMap \ {BoundKey} : jobsMap'[k] = jobsMap[k]
            /\ BuildsNoMetric
                 => /\ ~Has(last'.events, "OCToMetrics")
                    /\ ~Has(last'.events, "fixStaleMetrics")
                    /\ ~Has(last'.events, "ConsumeMetrics")
                    /\ last'.sent = <<>>
                    /\ BatchBeforeAdjust = NoMetrics
                    /\ last'.err = Nil]_vars

\* C34 witness: a Commit in JobsMap mode built no metric, called the
\* adjuster, which created the entry of the bound job and instance, and
\* called neither the conversion nor the sink.
C34_Witness ==
    /\ last.op = "Commit"
    /\ ~tr.isNew
    /\ ~tr.useStartTimeMetric
    /\ Len(tr.metricBuilder.points) = 0
    /\ last.events = << Ev("StartMetricsOp", 0, Nil), Ev("Build", 0, Nil),
                        Ev("AdjustMetrics", 0, Nil), Ev("EndMetricsOp", 0, Nil) >>
    /\ DOMAIN jobsMap = {JobsMapKey(tr.job, tr.instance)}
    /\ jobsMap[JobsMapKey(tr.job, tr.instance)] = <<>>

(***************************************************************************)
(* C35.  The start time the builder is created with is the timestamp of    *)
(* the first Append with a non-negative timestamp made since construction  *)
(* or since the last Rollback, also when that Append failed and a later    *)
(* one initialized the transaction.                                        *)
(***************************************************************************)
InitStep == cnt'.inits = cnt.inits + 1

HasNonNegative(ts) == \E i \in 1..Len(ts) : ts[i] >= 0

FirstNonNegative(ts) ==
    ts[CHOOSE i \in 1..Len(ts) : ts[i] >= 0 /\ \A j \in 1..(i - 1) : ts[j] < 0]

C35_BuilderStartIsFirstTimestamp ==
    [][(InitStep /\ HasNonNegative(fn'.in))
         => tr'.metricBuilder.intervalStartTimeMs = FirstNonNegative(fn'.in)]_vars

\* C35 witness: an Append with timestamp -2 and one with timestamp 0 failed,
\* a third with timestamp 3 initialized the transaction, and the builder
\* was created with start time 0.
C35_Witness ==
    /\ fn.in = <<-2, 0, 3>>
    /\ last.op = "Append"
    /\ last.err = Nil
    /\ cnt.inits = 1
    /\ ~tr.isNew
    /\ tr.metricBuilder.intervalStartTimeMs = 0

(***************************************************************************)
(* C36.  For histogram and summary points staleness is decided by the sum  *)
(* alone: a point whose sum is the stale marker gets the stale flag, count *)
(* 0, sum 0 and empty bucket counts and bounds (histogram) or an empty     *)
(* quantile list (summary); a point whose sum is not the marker is left as *)
(* it is, whatever its other fields hold.                                  *)
(***************************************************************************)
StaleHistogram(dp) ==
    [dp EXCEPT !.stale = TRUE, !.count = 0, !.v = Num(0), !.buckets = <<>>,
               !.bounds = <<>>]

StaleSummary(dp) ==
    [dp EXCEPT !.stale = TRUE, !.count = 0, !.v = Num(0), !.quantiles = <<>>]

C36_StalenessBySumAlone ==
    fn.op = "fixStaleMetrics"
    => /\ Len(fn.out) = Len(fn.in)
       /\ \A i \in 1..Len(fn.in) :
            /\ DataType(fn.in[i].type) = "Histogram"
                 => IF fn.in[i].v = StaleNaN
                    THEN fn.out[i] = StaleHistogram(fn.in[i])
                    ELSE fn.out[i] = fn.in[i]
            /\ DataType(fn.in[i].type) = "Summary"
                 => IF fn.in[i].v = StaleNaN
                    THEN fn.out[i] = StaleSummary(fn.in[i])
                    ELSE fn.out[i] = fn.in[i]

\* C36 witness: a batch of a stale histogram point and a summary point
\* whose sum is a number and whose quantile is the stale marker has been
\* fixed: the first is flagged and emptied, the second untouched.
C36_Witness ==
    /\ fn.op = "fixStaleMetrics"
    /\ Len(fn.in) = 2
    /\ DataType(fn.in[1].type) = "Histogram"
    /\ fn.in[1].v = StaleNaN
    /\ fn.in[1].count = 2
    /\ fn.out[1].stale /\ fn.out[1].buckets = <<>> /\ fn.out[1].count = 0
    /\ fn.in[2].type = "SUMMARY"
    /\ fn.in[2].v = Num(1)
    /\ fn.in[2].quantiles = <<StaleNaN>>
    /\ fn.out[2] = fn.in[2]

(***************************************************************************)
(* C37.  fixStaleMetrics is idempotent: applied to a batch it has already  *)
(* fixed it changes nothing, since a fixed point carries value or sum 0,   *)
(* which is not the stale marker, and keeps its flag.                      *)
(***************************************************************************)
C37_FixStaleIdempotent ==
    fn.op = "fixStaleMetrics again"
    => /\ fn.out = fn.in
       /\ \A i \in 1..Len(fn.in) :
            DataType(fn.in[i].type) # "None" => ~IsStaleNaN(fn.out[i].v)

\* C37 witness: the second application has run on a batch in which the
\* first had flagged a sum point and a summary point.
C37_Witness ==
    /\ fn.op = "fixStaleMetrics again"
    /\ Len(fn.in) = 2
    /\ DataType(fn.in[1].type) = "Sum"
    /\ fn.in[1].stale /\ fn.in[1].v = Num(0)
    /\ fn.in[2].type = "SUMMARY"
    /\ fn.in[2].stale /\ fn.in[2].quantiles = <<>>
    /\ fn.out = fn.in

(***************************************************************************)
(* C38.  Get returns the body with a nil error only when the request was   *)
(* built, the HTTP call succeeded, the body was read to its end and the    *)
(* status is 200; in every other outcome it returns a nil body and an      *)
(* error, an error of the read coming before a status that is not 200.     *)
(***************************************************************************)
GetAllWentWell ==
    /\ BuildReqOutcomes(ecs.path) = NoError
    /\ ecs.do.err = NoError
    /\ ecs.do.readErr = NoError
    /\ ecs.do.code = 200

C38_BodyOnlyOnFullSuccess ==
    ecs.returned
    => /\ GetAllWentWell
         => /\ ecs.err = NoError
            /\ ecs.body = [isNil |-> FALSE, data |-> ecs.do.data]
       /\ ~GetAllWentWell => ecs.body = NilBody /\ ecs.err # NoError
       /\ (/\ BuildReqOutcomes(ecs.path) = NoError
           /\ ecs.do.err = NoError
           /\ ecs.do.readErr # NoError)
            => ecs.err = <<"failed to read response body">> \o ecs.do.readErr

\* C38 witness: the server answered 404 and the read of the body failed,
\* and Get returned a nil body and the read error.
C38_Witness ==
    /\ ecs.returned
    /\ ecs.do.err = NoError
    /\ ecs.do.code = 404
    /\ ecs.do.readErr = <<errUnexpectedEOF>>
    /\ ecs.body = NilBody
    /\ ecs.err = <<"failed to read response body", errUnexpectedEOF>>

(***************************************************************************)
(* C39.  Whenever the HTTP call of Get returns a response, the response    *)
(* body is closed once before Get returns, on every path; a failure of the *)
(* close is logged and changes nothing of Get's result; when the HTTP call *)
(* fails, or is never made, nothing is closed.                             *)
(***************************************************************************)
\* What Get returns when the close is left out of account.
ResultWithoutClose ==
    IF BuildReqOutcomes(ecs.path) # NoError
    THEN [body |-> NilBody, err |-> BuildReqOutcomes(ecs.path)]
    ELSE IF ecs.do.err # NoError
    THEN [body |-> NilBody, err |-> ecs.do.err]
    ELSE IF ecs.do.readErr # NoError
    THEN [body |-> NilBody, err |-> <<"failed to read response body">> \o ecs.do.readErr]
    ELSE IF ecs.do.code # 200
    THEN [body |-> NilBody, err |-> <<"request GET failed", StatusOf(ecs.do.code)>>]
    ELSE [body |-> [isNil |-> FALSE, data |-> ecs.do.data], err |-> NoError]

C39_BodyClosedOnce ==
    /\ [](ecs.returned
            => /\ ecs.closes = (IF ecs.hasResp THEN 1 ELSE 0)
               /\ ecs.hasResp
                    = (BuildReqOutcomes(ecs.path) = NoError /\ ecs.do.err = NoError)
               /\ Len(ecs.log) = (IF ecs.hasResp /\ ecs.do.closeErr # NoError THEN 1 ELSE 0)
               /\ [body |-> ecs.body, err |-> ecs.err] = ResultWithoutClose)
    /\ [](ecs.closes <= 1)
    /\ [][ecs.pc = "deferred"
            => /\ ecs'.closes = ecs.closes + 1
               /\ ecs'.body = ecs.body
               /\ ecs'.err = ecs.err]_vars

\* C39 witness: the body of a 200 response was read, its close failed, and
\* Get returned the body with a nil error and one warning logged.
C39_Witness ==
    /\ ecs.returned
    /\ ecs.do.code = 200
    /\ ecs.do.closeErr = <<errClose>>
    /\ ecs.closes = 1
    /\ Len(ecs.log) = 1
    /\ ecs.err = NoError
    /\ ecs.body = [isNil |-> FALSE, data |-> "{}"]

====
